---- MODULE Spec2Model ----
(***************************************************************************)
(* Model of the matching pipeline of tsinfer/inference.py: the epoch       *)
(* scheduler of AncestorMatcher.match_ancestors, the single round of       *)
(* SampleMatcher._match_samples, the Matcher.find_path wrapper, and the    *)
(* tree sequence builder and matching engine they drive.                   *)
(*                                                                         *)
(* Node ids are 0-based as in the source, so per-node data are functions   *)
(* over 0..n-1.  A path is a sequence of edges [left, right, parent].      *)
(* Times are integers on a grid of TimeScale units per input time step so  *)
(* that a path-compression node can be placed strictly between two input   *)
(* times.                                                                  *)
(***************************************************************************)
EXTENDS Integers, Sequences, FiniteSets, TLC

\* ------------------------------------------------------------------ bounds
NumSites == 2
MaxAncestors == 3
MaxTime == 3
MaxThreads == 2
MaxSamples == 2
TimeScale == 8

\* ------------------------------------------------------- program constants
MISSING_DATA == -1
default_recombination_prob == 2
default_mismatch_prob == 20
NODE_IS_SAMPLE == 1
NODE_IS_PC_ANCESTOR == 2 ^ 16
NODE_IS_SAMPLE_ANCESTOR == 2 ^ 17
NODE_IS_HISTORICAL_SAMPLE == 2 ^ 19

\* flags are bit sets held as integers
HasBit(f, bit) == (f \div bit) % 2 = 1
bitwise_or(f, bit) == IF HasBit(f, bit) THEN f ELSE f + bit
bitwise_clear(f, bit) == IF HasBit(f, bit) THEN f - bit ELSE f

\* the flags add_node gives a node when it is called with a time only
default_flags == NODE_IS_SAMPLE

Sites == 0 .. (NumSites - 1)

MinOf(S) == CHOOSE x \in S : \A y \in S : x <= y
MaxOf(S) == CHOOSE x \in S : \A y \in S : y <= x

\* f extended by one entry v at index n (f is a function over 0..n-1)
Extend(f, v) ==
    LET n == Cardinality(DOMAIN f)
    IN [i \in 0 .. n |-> IF i < n THEN f[i] ELSE v]

Edge(l, r, p) == [left |-> l, right |-> r, parent |-> p]

\* ------------------------------------------------- tree sequence builder
EmptyIndex == [path |-> <<>>, mutations |-> {}]

NewBuilder ==
    [time |-> <<>>, flags |-> <<>>, path |-> <<>>, mutations |-> {},
     frozen |-> EmptyIndex]

num_nodes(tsb) == Cardinality(DOMAIN tsb.time)

add_node(tsb, t, fl) ==
    [tsb EXCEPT !.time = Extend(tsb.time, t),
                !.flags = Extend(tsb.flags, fl),
                !.path = Extend(tsb.path, <<>>)]

freeze_indexes(tsb) ==
    [tsb EXCEPT !.frozen = [path |-> tsb.path, mutations |-> tsb.mutations]]

add_mutations(tsb, child, muts) ==
    [tsb EXCEPT !.mutations =
        tsb.mutations \cup
        {[site |-> m.site, node |-> child, derived_state |-> m.derived_state] :
            m \in muts}]

PathParents(p) == {p[i].parent : i \in 1 .. Len(p)}

\* variant: the path is replaced by one edge to its first parent
RedirectFirstParent(p, u) == <<Edge(p[1].left, p[Len(p)].right, p[1].parent)>>

\* the single edge that stands for path p once it is redirected to node u
Redirect(p, u) == <<Edge(p[1].left, p[Len(p)].right, u)>>

compress_path(tsb, child, p) ==
    LET same == {c \in DOMAIN tsb.path : c # child /\ tsb.path[c] = p}
        pcs == {c \in same : tsb.flags[c] = NODE_IS_PC_ANCESTOR}
    IN  IF same = {} THEN [tsb EXCEPT !.path[child] = p]
        ELSE IF pcs # {} THEN [tsb EXCEPT !.path[child] = Redirect(p, MinOf(pcs))]
        ELSE LET pc_node == num_nodes(tsb)
                 min_parent_time == MinOf({tsb.time[u] : u \in PathParents(p)})
                 t1 == add_node(tsb, min_parent_time - 1, NODE_IS_PC_ANCESTOR)
             IN [t1 EXCEPT !.path[pc_node] = p,
                           !.path[MinOf(same)] = Redirect(p, pc_node),
                           !.path[child] = Redirect(p, pc_node)]

add_path(tsb, child, p, compress) ==
    IF compress /\ p # <<>> THEN compress_path(tsb, child, p)
    ELSE [tsb EXCEPT !.path[child] = p]

\* -------------------------------------------------------- matching engine
\* The engine reads only the frozen index F = tsb.frozen.
HasEdgeAt(F, u, s) ==
    /\ u \in DOMAIN F.path
    /\ \E i \in 1 .. Len(F.path[u]) :
          F.path[u][i].left <= s /\ s < F.path[u][i].right

ParentAt(F, u, s) ==
    LET i == CHOOSE i \in 1 .. Len(F.path[u]) :
                 F.path[u][i].left <= s /\ s < F.path[u][i].right
    IN F.path[u][i].parent

RECURSIVE AlleleAt(_, _, _)
AlleleAt(F, u, s) ==
    IF \E m \in F.mutations : m.site = s /\ m.node = u
    THEN (CHOOSE m \in F.mutations : m.site = s /\ m.node = u).derived_state
    ELSE IF HasEdgeAt(F, u, s) THEN AlleleAt(F, ParentAt(F, u, s), s)
    ELSE 0

\* copying candidates at site s: the root and every node with an edge over s
MatchNodes(F, s) == {0} \cup {u \in DOMAIN F.path : HasEdgeAt(F, u, s)}

Emission(F, h, u, s) ==
    IF h[s] = MISSING_DATA THEN 0
    ELSE IF AlleleAt(F, u, s) = h[s] THEN 0
    ELSE default_mismatch_prob

RECURSIVE Likelihood(_, _, _, _)
Likelihood(F, h, start, s) ==
    IF s = start
    THEN [u \in MatchNodes(F, s) |->
             [L |-> Emission(F, h, u, s), recomb |-> FALSE]]
    ELSE LET prev == Likelihood(F, h, start, s - 1)
             best == MinOf({prev[u].L : u \in DOMAIN prev})
             rec == best + default_recombination_prob
         IN [u \in MatchNodes(F, s) |->
                LET stay == IF u \in DOMAIN prev THEN prev[u].L ELSE rec + 1
                IN [L |-> (IF stay <= rec THEN stay ELSE rec)
                              + Emission(F, h, u, s),
                    recomb |-> stay > rec]]

\* the most likely state, ties broken by the lowest node id
BestNode(Lk) ==
    MinOf({u \in DOMAIN Lk : \A v \in DOMAIN Lk : Lk[u].L <= Lk[v].L})

\* the copied node at sites start..s (a sequence), given node u is copied at s
RECURSIVE Traceback(_, _, _, _, _)
Traceback(F, h, start, s, u) ==
    IF s = start THEN <<u>>
    ELSE LET Lk == Likelihood(F, h, start, s)
             before == IF Lk[u].recomb
                       THEN BestNode(Likelihood(F, h, start, s - 1))
                       ELSE u
         IN Append(Traceback(F, h, start, s - 1, before), u)

\* maximal runs of one copied node become the edges of the path
RECURSIVE PathOf(_, _, _)
PathOf(copy, start, n) ==
    IF n = 0 THEN <<>>
    ELSE IF n = 1 THEN <<Edge(start, start + 1, copy[1])>>
    ELSE LET p == PathOf(copy, start, n - 1)
             last == p[Len(p)]
         IN IF last.parent = copy[n]
            THEN [p EXCEPT ![Len(p)] = Edge(last.left, start + n, last.parent)]
            ELSE Append(p, Edge(start + n - 1, start + n, copy[n]))

matcher_find_path(F, h, start, end) ==
    LET u == BestNode(Likelihood(F, h, start, end - 1))
        copy == Traceback(F, h, start, end - 1, u)
    IN [path |-> PathOf(copy, start, end - start),
        match |-> [s \in Sites |->
                      IF start <= s /\ s < end
                      THEN AlleleAt(F, copy[s - start + 1], s)
                      ELSE MISSING_DATA]]

\* variant: the engine is asked for the whole sequence
find_path_whole(F, child_id, haplotype, start, end) ==
    LET r == matcher_find_path(F, haplotype, 0, NumSites)
        diffs == {s \in Sites : haplotype[s] # MISSING_DATA
                                  /\ haplotype[s] # r.match[s]}
    IN [node |-> child_id,
        path |-> r.path,
        mutations |-> {[site |-> s, derived_state |-> haplotype[s]] :
                          s \in diffs}]

\* variant: the match array is not masked where the query is missing
find_path_unmasked(F, child_id, haplotype, start, end) ==
    LET r == matcher_find_path(F, haplotype, start, end)
        diffs == {s \in start .. (end - 1) : haplotype[s] # r.match[s]}
    IN [node |-> child_id,
        path |-> r.path,
        mutations |-> {[site |-> s, derived_state |-> haplotype[s]] :
                          s \in diffs}]

\* ---------------------------------------------------- Matcher.find_path
find_path(F, child_id, haplotype, start, end) ==
    LET r == matcher_find_path(F, haplotype, start, end)
        match == [s \in Sites |->
                     IF haplotype[s] = MISSING_DATA THEN MISSING_DATA
                     ELSE r.match[s]]
        diffs == {s \in start .. (end - 1) : haplotype[s] # match[s]}
    IN [node |-> child_id,
        path |-> r.path,
        mutations |-> {[site |-> s, derived_state |-> haplotype[s]] :
                          s \in diffs}]

\* ------------------------------------------------------------ the inputs
Haplotype(a, b, lo, hi) ==
    [s \in Sites |->
        IF s < lo \/ s >= hi THEN MISSING_DATA
        ELSE IF a <= s /\ s < b THEN 1 ELSE 0]

Ancestor(t, lo, hi, h) == [time |-> t, start |-> lo, end |-> hi, haplotype |-> h]

\* ancestors spanning every site whose derived alleles are a prefix of the
\* sites, and one ancestor that has no data at site 0
AncestorHaplotypes ==
    {Ancestor(0, 0, NumSites, Haplotype(0, b, 0, NumSites)) :
        b \in 1 .. NumSites} \cup
    {Ancestor(0, 1, NumSites, Haplotype(1, NumSites, 1, NumSites))}

AncestorTimes == {TimeScale * t : t \in 1 .. MaxTime}

\* ancestor data as AncestorsGenerator.run leaves it: the all-zeros root
\* first and oldest, then oldest first, consecutive time points one step
\* of the time grid apart; the second ancestor may be all zeros too (the
\* ultimate ancestor)
AncestorDataSets ==
    UNION {
        {ad \in [0 .. (n - 1) -> {Ancestor(t, a.start, a.end, a.haplotype) :
                                    t \in AncestorTimes,
                                    a \in AncestorHaplotypes \cup
                                          {Ancestor(0, 0, NumSites,
                                                    Haplotype(0, 0, 0, NumSites))}}] :
            /\ \A i \in 0 .. (n - 2) :
                  ad[i].time - ad[i + 1].time \in {0, TimeScale}
            /\ n > 0 => ad[0] = Ancestor(TimeScale * MaxTime, 0, NumSites,
                                         Haplotype(0, 0, 0, NumSites))
            /\ \A i \in 2 .. (n - 1) : \E s \in Sites : ad[i].haplotype[s] = 1} :
        n \in 0 .. MaxAncestors}

\* the virtual root and two ancestors, each in an epoch of its own
PipelineAncestorData ==
    [i \in 0 .. 2 |->
        IF i = 0 THEN Ancestor(TimeScale * MaxTime, 0, NumSites,
                               Haplotype(0, 0, 0, NumSites))
        ELSE IF i = 1 THEN Ancestor(TimeScale * (MaxTime - 1), 0, NumSites,
                                    Haplotype(0, 1, 0, NumSites))
        ELSE Ancestor(TimeScale * (MaxTime - 2), 0, NumSites,
                      Haplotype(NumSites - 1, NumSites, 0, NumSites))]

\* sample haplotypes with the derived allele at a prefix of the sites, and
\* one with missing data at the last site
SampleHaplotypes ==
    {Haplotype(0, b, 0, NumSites) : b \in 1 .. NumSites} \cup
    {Haplotype(0, NumSites, 0, NumSites - 1)}

\* 0 for a contemporary sample, the individual's time under force_sample_times
SampleTimes == {0} \cup {TimeScale * t : t \in 1 .. (MaxTime - 1)}

\* the samples of one call, at most one of them historical
SampleSets ==
    UNION {{ss \in [1 .. n -> [haplotype : SampleHaplotypes, time : SampleTimes]] :
               Cardinality({i \in 1 .. n : ss[i].time > 0}) <= 1} :
              n \in 1 .. MaxSamples}

\* ------------------------------------------------------------- the state
VARIABLES
    ancestor_data,      \* input: ancestor id -> [time, start, end, haplotype]
    samples,            \* input: the samples to match, <<>> if none
    num_threads,        \* input
    path_compression,   \* input
    pc,                 \* position of the scheduling thread
    tsb,                \* the tree sequence builder
    ancestors,          \* self.ancestors: id the shared iterator yields next
    j,                  \* epoch index of match_ancestors
    taken,              \* items drawn from the work iterator this round
    worker,             \* worker thread -> the item it is matching, or Idle
    buffer,             \* threaded_map: (index, result) in completion order
    results,            \* the results list of the scheduling thread
    k,                  \* index of the commit loop
    sample_id_map,      \* sample index -> node id
    times,              \* node times as dumped at the start of _match_samples
    ancestors_ts,       \* the tables returned by match_ancestors
    error,              \* the exception that ended the run, or "none"
    round_base,         \* history: the builder when the round started
    log,                \* history: the commits, in order
    out_ts,             \* the tables of the tree sequence returned
    match_progress,     \* self.match_progress: the progress counter
    descriptors_in,     \* input: the descriptors as the ancestor builder returns them
    gpc,                \* position of the thread that runs AncestorsGenerator.run
    descriptors,        \* self.descriptors
    generated,          \* the ancestor data: the add_ancestor calls, in order
    next_desc,          \* index of the loop over self.descriptors
    stops,              \* None items put on the build queue
    build_queue,        \* _run_threaded: work items not yet taken
    add_queue,          \* _run_threaded: built ancestors not yet added
    next_add_index,     \* _run_threaded: index of the next ancestor to add
    bworker,            \* build worker -> its state, its buffer a and its work
    add_lock,           \* the build worker that holds add_lock, or 0
    local_data,         \* local_data: thread-local key -> the matcher stored there
    matchers,           \* history: the matcher instances created
    uses,               \* history: which thread ran find_path on which matcher
    args,               \* input: the arguments of the public match_samples
    vpc,                \* position of the public match_samples
    builder,            \* self.tree_sequence_builder: <<>> is None, else <<b>>
    recombination,      \* self.recombination[1:]
    mismatch,           \* self.mismatch
    sample_indexes,     \* the indexes check_sample_indexes returned
    verror,             \* the message of the ValueError raised, or "none"
    post,               \* simplify, post_process, simplify_only, and what ran
    sample_sites,       \* input: the sites of the sample data, in site order
    exclude_positions,  \* input
    spc,                \* position of generate_ancestors
    site_j,             \* add_sites: the variants read so far
    inference_site_id,  \* add_sites: the local list of site ids
    inference_site_ids, \* self.inference_site_ids
    gen_num_sites,      \* self.num_sites of the generator
    ancestor_builder,   \* <<>> is none, else <<the add_site calls, in order>>
    serror              \* the error generate_ancestors raised, or "none"

vars == <<ancestor_data, samples, num_threads, path_compression, pc, tsb,
          ancestors, j, taken, worker, buffer, results, k, sample_id_map,
          times, ancestors_ts, error, round_base, log, out_ts, match_progress,
          descriptors_in, gpc, descriptors, generated, next_desc, stops,
          build_queue, add_queue, next_add_index, bworker, add_lock,
          local_data, matchers, uses,
          args, vpc, builder, recombination, mismatch, sample_indexes, verror,
          post,
          sample_sites, exclude_positions, spc, site_j, inference_site_id,
          inference_site_ids, gen_num_sites, ancestor_builder, serror>>

site_vars == <<sample_sites, exclude_positions, spc, site_j, inference_site_id,
               inference_site_ids, gen_num_sites, ancestor_builder, serror>>

val_vars == <<args, vpc, builder, recombination, mismatch, sample_indexes, verror,
              post>>

own_vars == <<local_data, matchers, uses>>

gen_vars == <<descriptors_in, gpc, descriptors, generated, next_desc, stops,
              build_queue, add_queue, next_add_index, bworker, add_lock>>

matcher_vars == <<ancestor_data, samples, path_compression, pc, tsb,
                  ancestors, j, taken, worker, buffer, results, k,
                  sample_id_map, times, ancestors_ts, error, round_base, log,
                  out_ts, match_progress, local_data, matchers, uses>>

inputs == <<ancestor_data, samples, num_threads, path_compression>>

Idle == [index |-> -1]
Workers == 1 .. MaxThreads
NoTables == [nodes |-> <<>>, edges |-> {}, mutations |-> {}]

num_ancestors == Cardinality(DOMAIN ancestor_data)
epoch == [i \in DOMAIN ancestor_data |-> ancestor_data[i].time]

\* ------------------------------------------- AncestorMatcher.__init__
RECURSIVE SortedSeq(_)
SortedSeq(S) ==
    IF S = {} THEN <<>>
    ELSE LET m == MinOf(S) IN <<m>> \o SortedSeq(S \ {m})

\* variant: a break after every ancestor
epoch_breaks_every(ep) == 0 .. (Cardinality(DOMAIN ep) - 2)

epoch_breaks(ep) ==
    {i \in 0 .. (Cardinality(DOMAIN ep) - 2) : ep[i + 1] # ep[i]}

\* variant: one slice for the root and one for every other ancestor
epoch_slices_merged ==
    IF num_ancestors <= 1
    THEN [e \in 0 .. 0 |-> [start |-> 0, end |-> num_ancestors]]
    ELSE [e \in 0 .. 1 |->
             IF e = 0 THEN [start |-> 0, end |-> 1]
             ELSE [start |-> 1, end |-> num_ancestors]]

epoch_slices ==
    LET b == SortedSeq({i + 1 : i \in epoch_breaks(epoch)})
        start == <<0>> \o b
        end == b \o <<num_ancestors>>
    IN [e \in 0 .. (Len(start) - 1) |->
           [start |-> start[e + 1], end |-> end[e + 1]]]

num_epochs == IF num_ancestors = 0 THEN 0 ELSE Cardinality(DOMAIN epoch_slices)

start_epoch == 1

RECURSIVE add_ancestor_nodes(_, _, _)
add_ancestor_nodes(b, ep, ancestor_id) ==
    IF ancestor_id >= Cardinality(DOMAIN ep) THEN b
    ELSE add_ancestor_nodes(add_node(b, ep[ancestor_id], default_flags), ep, ancestor_id + 1)

\* --------------------------------------------------- the round's items
InAncestors == pc \in {"ma_loop", "ma_match", "ma_commit"}
Matching == pc \in {"ma_match", "ms_match"}

RoundSize ==
    IF InAncestors THEN epoch_slices[j].end - epoch_slices[j].start
    ELSE Len(samples)

\* work_iter: islice(self.ancestors, end - start) paired with i + start, or
\* the sample haplotypes in sample_indexes order
HasNext(t, a) == t < RoundSize /\ (InAncestors => a < num_ancestors)

NextItem ==
    IF InAncestors
    THEN [index |-> taken, ancestor |-> ancestors,
          ancestor_id |-> taken + epoch_slices[j].start]
    ELSE [index |-> taken, ancestor |-> taken + 1,
          ancestor_id |-> sample_id_map[taken + 1]]

\* worker_function of match_ancestors and of _match_samples
worker_function(item) ==
    IF InAncestors
    THEN IF item.ancestor # item.ancestor_id
         THEN [ok |-> FALSE]
         ELSE [ok |-> TRUE,
               result |-> find_path(tsb.frozen, item.ancestor,
                                    ancestor_data[item.ancestor].haplotype,
                                    ancestor_data[item.ancestor].start,
                                    ancestor_data[item.ancestor].end)]
    ELSE [ok |-> TRUE,
          result |-> find_path(tsb.frozen, item.ancestor_id,
                               samples[item.ancestor].haplotype, 0, NumSites)]

\* variant: the loop over the mapper is left after the first result
MapConsumedLazy(t, a) == t >= 1

\* the loop over the mapper ends when the work iterator is exhausted
MapConsumed(t, a) == ~HasNext(t, a)

CommitPhase == IF InAncestors THEN "ma_commit" ELSE "ms_commit"

\* variant: the exception is swallowed and the round goes on to commit
RaiseFromSwallowed(e) ==
    /\ error' = error
    /\ pc' = CommitPhase

\* an exception ends the run where the scheduling thread stands
RaiseFrom(e) ==
    /\ error' = e
    /\ pc' = pc

Running == error = "none"

\* ------------------------------------------------ the matcher instances
\* the thread that runs match_ancestors or match_samples
MainThread == <<0, 0>>

\* the call of threaded_map of a round starts its own worker threads
pool_thread(w) == <<IF InAncestors THEN j ELSE 0, w>>

call_id == IF InAncestors THEN "match_ancestors" ELSE "_match_samples"

\* variant: local_data is an object shared by the threads
thread_local_shared(t) == MainThread

\* local_data = threading.local(): each thread has its own attributes
thread_local(t) == t

\* create_matcher_instance, called in thread t
create_matcher_instance(t) ==
    [call |-> call_id, thread |-> t,
     n |-> 1 + Cardinality({m \in matchers : m.call = call_id /\ m.thread = t})]

\* worker_function in thread t: the matcher is created if local_data has
\* none, then find_path runs on it
use_matcher(t) ==
    LET has == thread_local(t) \in DOMAIN local_data
        m == IF has THEN local_data[thread_local(t)]
             ELSE create_matcher_instance(t)
    IN /\ local_data' = IF has THEN local_data
                        ELSE (thread_local(t) :> m) @@ local_data
       /\ matchers' = matchers \cup {m}
       /\ uses' = uses \cup {[matcher |-> m, thread |-> t, call |-> call_id]}

\* ------------------------------------------------ the progress counter
\* progress_monitor.get(name, total)
progress_get(name, total) ==
    [name |-> name, total |-> total, n |-> 0, closed |-> FALSE]

\* c calls of update()
progress_update(p, c) == [p EXCEPT !.n = p.n + c]

progress_close(p) == [p EXCEPT !.closed = TRUE]

\* the updates made for one item mapped inline: one in the loop over the
\* mapper, and in _match_samples one more in worker_function
inline_updates == IF InAncestors THEN 1 ELSE 2

\* the updates a worker thread makes for one item, in worker_function
worker_updates == IF InAncestors THEN 0 ELSE 1

\* _match_samples closes the counter as soon as the mapper is consumed
close_after_map(p) == IF InAncestors THEN p ELSE progress_close(p)

\* ------------------------------------------------ mapper = map (inline)
SeqMatch ==
    /\ Running
    /\ Matching
    /\ num_threads <= 0
    /\ HasNext(taken, ancestors)
    /\ taken' = taken + 1
    /\ ancestors' = IF InAncestors THEN ancestors + 1 ELSE ancestors
    /\ LET out == worker_function(NextItem)
       IN \/ /\ out.ok
             /\ results' = Append(results, out.result)
             /\ pc' = IF MapConsumed(taken', ancestors') THEN CommitPhase ELSE pc
             /\ match_progress' =
                   IF MapConsumed(taken', ancestors')
                   THEN close_after_map(
                            progress_update(match_progress, inline_updates))
                   ELSE progress_update(match_progress, inline_updates)
             /\ error' = error
             /\ use_matcher(MainThread)
          \/ /\ ~out.ok
             /\ RaiseFrom("AssertionError")
             /\ results' = results
             /\ UNCHANGED <<own_vars, match_progress>>
          \/ /\ out.ok
             /\ RaiseFrom("MatchError")
             /\ results' = results
             /\ match_progress' = match_progress
             /\ use_matcher(MainThread)
    /\ UNCHANGED <<site_vars, val_vars, gen_vars, out_ts, inputs, tsb, j,
                   worker, buffer, k, sample_id_map, times, ancestors_ts,
                   round_base, log>>

\* ------------------------------------------- mapper = threaded_map
\* the worker threads are interchangeable: the next item goes to the idle
\* worker of lowest index
WorkerTake(w) ==
    /\ Running
    /\ Matching
    /\ num_threads > 0
    /\ w <= num_threads
    /\ worker[w] = Idle
    /\ \A v \in 1 .. (w - 1) : worker[v] # Idle
    /\ HasNext(taken, ancestors)
    /\ worker' = [worker EXCEPT ![w] = NextItem]
    /\ taken' = taken + 1
    /\ ancestors' = IF InAncestors THEN ancestors + 1 ELSE ancestors
    /\ UNCHANGED <<site_vars, val_vars, gen_vars, out_ts, match_progress, own_vars, inputs,
                   pc, tsb, j, buffer, results, k, sample_id_map, times,
                   ancestors_ts, error, round_base, log>>

WorkerFinish(w) ==
    /\ Running
    /\ Matching
    /\ worker[w] # Idle
    /\ LET out == worker_function(worker[w])
       IN \/ /\ out.ok
             /\ buffer' = Append(buffer, [index |-> worker[w].index,
                                          result |-> out.result])
             /\ worker' = [worker EXCEPT ![w] = Idle]
             /\ match_progress' = progress_update(match_progress, worker_updates)
             /\ UNCHANGED <<pc, error>>
             /\ use_matcher(pool_thread(w))
          \/ /\ ~out.ok
             /\ RaiseFrom("AssertionError")
             /\ UNCHANGED <<buffer, worker, own_vars, match_progress>>
          \/ /\ out.ok
             /\ RaiseFrom("MatchError")
             /\ UNCHANGED <<buffer, worker, match_progress>>
             /\ use_matcher(pool_thread(w))
    /\ UNCHANGED <<site_vars, val_vars, gen_vars, out_ts, inputs, tsb,
                   ancestors, j, taken, results, k, sample_id_map, times,
                   ancestors_ts, round_base, log>>

\* variant: the results in the order the workers finished
threaded_map_unordered(buf) == [i \in 1 .. Len(buf) |-> buf[i].result]

\* the results of threaded_map, in the order of the work items
threaded_map_results(buf) ==
    [i \in 1 .. Len(buf) |->
        (CHOOSE b \in {buf[n] : n \in 1 .. Len(buf)} : b.index = i - 1).result]

Join ==
    /\ Running
    /\ Matching
    /\ num_threads > 0
    /\ MapConsumed(taken, ancestors)
    /\ \A w \in Workers : worker[w] = Idle
    /\ results' = threaded_map_results(buffer)
    /\ match_progress' =
          close_after_map(progress_update(match_progress, Len(buffer)))
    /\ pc' = CommitPhase
    /\ UNCHANGED <<site_vars, val_vars, gen_vars, out_ts, own_vars, inputs,
                   tsb, ancestors, j, taken, worker, buffer, k, sample_id_map,
                   times, ancestors_ts, error, round_base, log>>

\* ------------------------------------------------- match_ancestors
start_round_state ==
    /\ taken' = 0
    /\ results' = <<>>
    /\ buffer' = <<>>
    /\ k' = 0

\* __start_epoch, at the top of the loop over the epochs
StartEpoch ==
    /\ Running
    /\ pc = "ma_loop"
    /\ j < num_epochs
    /\ tsb' = freeze_indexes(tsb)
    /\ round_base' = tsb'
    /\ pc' = "ma_match"
    /\ start_round_state
    /\ UNCHANGED <<site_vars, val_vars, gen_vars, out_ts, match_progress, own_vars, inputs,
                   ancestors, j, worker, sample_id_map, times, ancestors_ts,
                   error, log>>

\* variant: child ids counted from start + 1
commit_child_off(start, n) == start + n + 1

commit_child(start, n) == start + n

commit_count == IF Len(results) < RoundSize THEN Len(results) ELSE RoundSize

commit_result(b, child_id, result) ==
    add_mutations(add_path(b, child_id, result.path, path_compression),
                  child_id, result.mutations)

\* variant: every node counted as a match node
num_match_nodes_all(b) == num_nodes(b)

\* the builder's count of the nodes that can be matched against: the root
\* and every node that is the child of an edge
num_match_nodes(b) ==
    1 + Cardinality({u \in DOMAIN b.path : b.path[u] # <<>>})

\* the assertion that ends __complete_epoch
epoch_accounting(before, after, num_ancestors_in_epoch) ==
    LET extra_nodes == num_nodes(after) - num_nodes(before)
    IN num_match_nodes(after)
         = num_match_nodes(before) + extra_nodes + num_ancestors_in_epoch

\* one iteration of the loop of __complete_epoch; the last one goes on to
\* the assertion on the node counts
CompleteEpochStep ==
    /\ Running
    /\ pc = "ma_commit"
    /\ k < commit_count
    /\ LET child_id == commit_child(epoch_slices[j].start, k)
           result == results[k + 1]
       IN IF result.node # child_id
          THEN /\ RaiseFrom("AssertionError")
               /\ UNCHANGED <<tsb, log, k, j>>
          ELSE /\ tsb' = commit_result(tsb, child_id, result)
               /\ log' = Append(log, result)
               /\ k' = k + 1
               /\ IF k' = commit_count
                     /\ ~epoch_accounting(round_base, tsb', RoundSize)
                  THEN /\ RaiseFrom("AssertionError")
                       /\ j' = j
                  ELSE /\ pc' = IF k' = commit_count THEN "ma_loop" ELSE pc
                       /\ j' = IF k' = commit_count THEN j + 1 ELSE j
                       /\ error' = error
    /\ UNCHANGED <<site_vars, val_vars, gen_vars, out_ts, match_progress, own_vars, inputs,
                   ancestors, taken, worker, buffer, results, sample_id_map,
                   times, ancestors_ts, round_base>>

\* ---------------------------------------- the ancestors tree sequence
sites_position(i) == 10 * (i + 1)
sequence_length == 10 * (NumSites + 1)

\* Matcher.__init__: site index -> position, bracketed by 0 and L
position_map ==
    [i \in 0 .. NumSites |->
        IF i = 0 THEN 0
        ELSE IF i = NumSites THEN sequence_length
        ELSE sites_position(i)]

\* variant: the insertion point to the right of equal entries
searchsorted_right(a, v) == Cardinality({i \in DOMAIN a : a[i] <= v})

searchsorted(a, v) == Cardinality({i \in DOMAIN a : a[i] < v})

allele_of(derived_state) == IF derived_state = 0 THEN "ancestral" ELSE "derived"
allele_index(allele) == IF allele = "ancestral" THEN 0 ELSE 1

\* no metadata: b""
NoMetadata == [empty |-> TRUE]

\* variant: the ancestors are numbered from one
nodes_metadata_from_one(flags) ==
    [u \in DOMAIN flags |->
        IF HasBit(flags[u], NODE_IS_PC_ANCESTOR) THEN NoMetadata
        ELSE [empty |-> FALSE,
              ancestor_data_id |->
                  1 + Cardinality({v \in DOMAIN flags :
                          v < u /\ ~HasBit(flags[v], NODE_IS_PC_ANCESTOR)})]]

\* the metadata column of get_ancestors_tables: a counter that starts at 0
\* and goes up at every node that is not a path-compression node
nodes_metadata(flags) ==
    [u \in DOMAIN flags |->
        IF HasBit(flags[u], NODE_IS_PC_ANCESTOR) THEN NoMetadata
        ELSE [empty |-> FALSE,
              ancestor_data_id |->
                  Cardinality({v \in DOMAIN flags :
                      v < u /\ ~HasBit(flags[v], NODE_IS_PC_ANCESTOR)})]]

get_ancestors_tables(b) ==
    [nodes |-> [u \in DOMAIN b.time |-> [flags |-> b.flags[u], time |-> b.time[u]]],
     metadata |-> nodes_metadata(b.flags),
     edges |-> {[left |-> position_map[b.path[u][i].left],
                 right |-> position_map[b.path[u][i].right],
                 parent |-> b.path[u][i].parent,
                 child |-> u] : <<u, i>> \in
                    {<<u, i>> \in (DOMAIN b.path) \X (1 .. NumSites) :
                        i <= Len(b.path[u])}},
     mutations |-> {[site |-> m.site, node |-> m.node,
                     derived_state |-> allele_of(m.derived_state)] :
                        m \in b.mutations}]

store_output(b) ==
    IF num_ancestors > 0 THEN get_ancestors_tables(b) ELSE NoTables

\* match_ancestors returns once the loop over the epochs has ended
StoreOutput ==
    /\ Running
    /\ pc = "ma_loop"
    /\ j >= num_epochs
    /\ ancestors_ts' = store_output(tsb)
    /\ match_progress' = progress_close(match_progress)
    /\ pc' = IF samples = <<>> THEN "done" ELSE "ms_init"
    /\ UNCHANGED <<site_vars, val_vars, gen_vars, out_ts, own_vars, inputs,
                   tsb, ancestors, j, taken, worker, buffer, results, k,
                   sample_id_map, times, error, round_base, log>>

\* --------------------------------------------------- SampleMatcher
restore_edges(tables) ==
    [u \in DOMAIN tables.nodes |->
        LET mine == {e \in tables.edges : e.child = u}
            lefts == SortedSeq({searchsorted(position_map, e.left) : e \in mine})
        IN [i \in 1 .. Len(lefts) |->
               LET e == CHOOSE e \in mine :
                            searchsorted(position_map, e.left) = lefts[i]
               IN Edge(lefts[i], searchsorted(position_map, e.right), e.parent)]]

restore_tree_sequence_builder(tables) ==
    freeze_indexes(
        [time |-> [u \in DOMAIN tables.nodes |-> tables.nodes[u].time],
         flags |-> [u \in DOMAIN tables.nodes |-> tables.nodes[u].flags],
         path |-> restore_edges(tables),
         mutations |-> {[site |-> m.site, node |-> m.node,
                         derived_state |-> allele_index(m.derived_state)] :
                            m \in tables.mutations},
         frozen |-> EmptyIndex])

restore_error(tables) ==
    IF \E u \in DOMAIN tables.nodes : tables.nodes[u].time <= 0
    THEN "ValueError"
    ELSE IF \E e \in tables.edges :
               \/ position_map[searchsorted(position_map, e.left)] # e.left
               \/ position_map[searchsorted(position_map, e.right)] # e.right
    THEN "ValueError"
    ELSE "none"

SampleMatcherInit ==
    /\ Running
    /\ pc = "ms_init"
    /\ IF restore_error(ancestors_ts) # "none"
       THEN /\ RaiseFrom(restore_error(ancestors_ts))
            /\ tsb' = NewBuilder
       ELSE /\ tsb' = restore_tree_sequence_builder(ancestors_ts)
            /\ pc' = "ms_add"
            /\ error' = error
    /\ UNCHANGED <<site_vars, val_vars, gen_vars, out_ts, match_progress, own_vars, inputs,
                   ancestors, j, taken, worker, buffer, results, k,
                   sample_id_map, times, ancestors_ts, round_base, log>>

\* variant: every sample node is added at time 0
RECURSIVE add_sample_nodes_contemporary(_, _)
add_sample_nodes_contemporary(b, n) ==
    IF n > Len(samples) THEN b
    ELSE add_sample_nodes_contemporary(add_node(b, 0, default_flags), n + 1)

RECURSIVE add_sample_nodes(_, _)
add_sample_nodes(b, n) ==
    IF n > Len(samples) THEN b
    ELSE add_sample_nodes(add_node(b, samples[n].time, default_flags), n + 1)

\* self.num_sites of the sample matcher: the length of the haplotypes
num_sites ==
    IF samples = <<>> THEN NumSites
    ELSE Cardinality(DOMAIN samples[1].haplotype)

\* match_samples with no inference site: _match_samples does nothing
MatchSamplesNoSites ==
    /\ Running
    /\ pc = "ms_add"
    /\ num_sites = 0
    /\ tsb' = add_sample_nodes(tsb, 1)
    /\ sample_id_map' = [n \in 1 .. Len(samples) |-> num_nodes(tsb) + n - 1]
    /\ times' = tsb'.time
    /\ pc' = "done"
    /\ UNCHANGED <<site_vars, val_vars, gen_vars, out_ts, match_progress, own_vars, inputs,
                   ancestors, j, taken, worker, buffer, results, k,
                   ancestors_ts, error, round_base, log>>

\* match_samples up to the start of the matching of _match_samples
MatchSamplesStart ==
    /\ Running
    /\ pc = "ms_add"
    /\ num_sites > 0
    /\ tsb' = add_sample_nodes(tsb, 1)
    /\ sample_id_map' = [n \in 1 .. Len(samples) |-> num_nodes(tsb) + n - 1]
    /\ times' = tsb'.time
    /\ round_base' = tsb'
    /\ pc' = "ms_match"
    /\ match_progress' = progress_get("ms_match", Len(samples))
    /\ start_round_state
    /\ local_data' = <<>>
    /\ UNCHANGED <<site_vars, val_vars, gen_vars, out_ts, matchers, uses,
                   inputs, ancestors, j, worker, ancestors_ts, error, log>>

\* variant: the time check is skipped
younger_parent_unchecked(ts, node_id, parents) == FALSE

younger_parent(ts, node_id, parents) ==
    \E p \in parents : ts[node_id] > ts[p]

\* one iteration of the commit loop of _match_samples
CommitSampleStep ==
    /\ Running
    /\ pc = "ms_commit"
    /\ k < commit_count
    /\ LET node_id == sample_id_map[k + 1]
           result == results[k + 1]
       IN IF node_id # result.node
          THEN /\ RaiseFrom("AssertionError")
               /\ UNCHANGED <<tsb, log, k>>
          ELSE IF younger_parent(times, node_id, PathParents(result.path))
          THEN /\ RaiseFrom("ValueError")
               /\ UNCHANGED <<tsb, log, k>>
          ELSE /\ tsb' = commit_result(tsb, result.node, result)
               /\ log' = Append(log, result)
               /\ k' = k + 1
               /\ pc' = IF k' = commit_count THEN "done" ELSE pc
               /\ error' = error
    /\ UNCHANGED <<site_vars, val_vars, gen_vars, out_ts, match_progress, own_vars, inputs,
                   ancestors, j, taken, worker, buffer, results,
                   sample_id_map, times, ancestors_ts, round_base>>

\* --------------------------------------------- the tree sequences returned
SeqToFun(rows) == [u \in 0 .. (Len(rows) - 1) |-> rows[u + 1]]

\* the time 1.0
TimeOne == TimeScale

\* variant: the nodes made by path compression come before the samples
samples_node_rows_pc_first(b, ids, anc) ==
    LET n0 == Cardinality(DOMAIN anc.nodes)
        last == ids[Len(ids)]
        kept == [i \in 1 .. n0 |->
                    [flags |-> bitwise_clear(anc.nodes[i - 1].flags, NODE_IS_SAMPLE),
                     time |-> anc.nodes[i - 1].time]]
        srows == [n \in 1 .. Len(ids) |->
                    [flags |-> b.flags[ids[n]], time |-> b.time[ids[n]]]]
        rest == [i \in 1 .. (num_nodes(b) - last - 1) |->
                    [flags |-> b.flags[last + i], time |-> b.time[last + i]]]
    IN kept \o rest \o srows

\* variant: every flag of an inherited node is dropped
inherited_flags_none(f) == 0

\* np.bitwise_and(tables.nodes.flags, ~tskit.NODE_IS_SAMPLE)
inherited_flags(f) == bitwise_clear(f, NODE_IS_SAMPLE)

\* the node table of get_samples_tree_sequence, in the order of the rows
samples_node_rows(b, ids, anc) ==
    LET n0 == Cardinality(DOMAIN anc.nodes)
        last == ids[Len(ids)]
        kept == [i \in 1 .. n0 |->
                    [flags |-> inherited_flags(anc.nodes[i - 1].flags),
                     time |-> anc.nodes[i - 1].time]]
        \* the time of the individual of a sample is the time it is matched at
        srows == [n \in 1 .. Len(ids) |->
                    [flags |-> IF samples[n].time # 0
                               THEN bitwise_or(b.flags[ids[n]],
                                               NODE_IS_HISTORICAL_SAMPLE)
                               ELSE b.flags[ids[n]],
                     time |-> b.time[ids[n]]]]
        rest == [i \in 1 .. (num_nodes(b) - last - 1) |->
                    [flags |-> b.flags[last + i], time |-> b.time[last + i]]]
    IN kept \o srows \o rest

\* variant: the artificial root is as old as the oldest node
artificial_root_time_flat(rows) == MaxOf({rows[i].time : i \in 1 .. Len(rows)})

\* max_node_time + 1
artificial_root_time(rows) ==
    MaxOf({rows[i].time : i \in 1 .. Len(rows)}) + TimeOne

get_samples_tree_sequence(b, ids, anc) ==
    LET rows == samples_node_rows(b, ids, anc)
        root == Len(rows)
        ultimate == Len(rows) + 1
        dumped == get_ancestors_tables(b)
    IN IF num_sites = 0
       THEN [nodes |-> SeqToFun(rows \o
                         <<[flags |-> 0, time |-> artificial_root_time(rows)],
                           [flags |-> 0,
                            time |-> artificial_root_time(rows) + TimeOne]>>),
             edges |-> {[left |-> 0, right |-> sequence_length,
                         parent |-> ultimate, child |-> root]} \cup
                       {[left |-> 0, right |-> sequence_length,
                         parent |-> root, child |-> ids[n]] :
                            n \in 1 .. Len(ids)},
             mutations |-> {}]
       ELSE [nodes |-> SeqToFun(rows),
             edges |-> dumped.edges,
             mutations |-> dumped.mutations]

\* assert len(tables.nodes) == sample_ids[0]
first_sample_assert(ids, anc) == Cardinality(DOMAIN anc.nodes) = ids[1]

\* ts.num_samples
num_samples_of(tables) ==
    Cardinality({u \in DOMAIN tables.nodes :
                    HasBit(tables.nodes[u].flags, NODE_IS_SAMPLE)})

\* the assertions of finalise and of get_samples_tree_sequence
finalise_asserts(b, ids, anc) ==
    /\ first_sample_assert(ids, anc)
    /\ num_sites = 0 => \A u \in DOMAIN b.path : b.path[u] = <<>>
    /\ num_samples_of(get_samples_tree_sequence(b, ids, anc)) = Len(ids)

\* SampleMatcher.finalise
Finalise ==
    /\ Running
    /\ pc = "done"
    /\ samples # <<>>
    /\ IF ~finalise_asserts(tsb, sample_id_map, ancestors_ts)
       THEN /\ RaiseFrom("AssertionError")
            /\ out_ts' = out_ts
       ELSE /\ out_ts' = get_samples_tree_sequence(tsb, sample_id_map, ancestors_ts)
            /\ pc' = "finalised"
            /\ error' = error
    /\ UNCHANGED <<site_vars, val_vars, gen_vars, match_progress, own_vars, inputs, tsb,
                   ancestors, j, taken, worker, buffer, results, k,
                   sample_id_map, times, ancestors_ts, round_base, log>>

is_pc_ancestor(flags) == HasBit(flags, NODE_IS_PC_ANCESTOR)

\* the sample indexes of the call: the samples matched are the samples asked
\* for, numbered 0, 1, ... here
call_sample_indexes == [n \in 1 .. Len(samples) |-> n - 1]

\* the rows get_augmented_ancestors_tree_sequence adds, before the shift
augmented_rows(b, anc, indexes) ==
    LET n0 == Cardinality(DOMAIN anc.nodes)
        s(u) == Cardinality({v \in n0 .. (u - 1) : b.time[v] = 0})
    IN [i \in 1 .. (num_nodes(b) - n0) |->
           LET u == n0 + i - 1
           IN IF b.time[u] = 0
              THEN [flags |-> NODE_IS_SAMPLE_ANCESTOR, time |-> b.time[u],
                    metadata |-> indexes[s(u) + 1]]
              ELSE [flags |-> b.flags[u], time |-> b.time[u], metadata |-> 0 - 1]]

\* the assertions of get_augmented_ancestors_tree_sequence
augmented_asserts(b, anc, indexes) ==
    LET n0 == Cardinality(DOMAIN anc.nodes)
    IN /\ \A u \in n0 .. (num_nodes(b) - 1) :
             b.time[u] # 0 => is_pc_ancestor(b.flags[u])
       /\ Cardinality({u \in n0 .. (num_nodes(b) - 1) : b.time[u] = 0})
             = Len(indexes)

\* variant: the times are left as they are
shift_times_none(rows) == rows

\* tables.nodes.time = tables.nodes.time + 1
shift_times(rows) ==
    [i \in 1 .. Len(rows) |-> [rows[i] EXCEPT !.time = rows[i].time + TimeOne]]

get_augmented_ancestors_tree_sequence(b, anc, indexes) ==
    LET n0 == Cardinality(DOMAIN anc.nodes)
        kept == [i \in 1 .. n0 |->
                    [flags |-> anc.nodes[i - 1].flags,
                     time |-> anc.nodes[i - 1].time,
                     metadata |-> 0 - 1]]
        dumped == get_ancestors_tables(b)
    IN [nodes |-> SeqToFun(shift_times(kept \o augmented_rows(b, anc, indexes))),
        edges |-> dumped.edges,
        mutations |-> dumped.mutations]

\* augment_ancestors after match_samples, which it calls with times 0
Augment ==
    /\ Running
    /\ pc = "done"
    /\ samples # <<>>
    /\ num_sites > 0
    /\ \A n \in 1 .. Len(samples) : samples[n].time = 0
    /\ IF ~augmented_asserts(tsb, ancestors_ts, call_sample_indexes)
       THEN /\ RaiseFrom("AssertionError")
            /\ out_ts' = out_ts
       ELSE /\ out_ts' = get_augmented_ancestors_tree_sequence(
                             tsb, ancestors_ts, call_sample_indexes)
            /\ pc' = "augmented"
            /\ error' = error
    /\ UNCHANGED <<site_vars, val_vars, gen_vars, match_progress, own_vars, inputs, tsb,
                   ancestors, j, taken, worker, buffer, results, k,
                   sample_id_map, times, ancestors_ts, round_base, log>>

\* the samples of a sample data file without inference sites
NoSiteSamples ==
    UNION {[1 .. n -> [haplotype : {<<>>}, time : SampleTimes]] :
              n \in 1 .. MaxSamples}

\* ------------------------------------------------ AncestorsGenerator
Descriptor(t, f) == [time |-> t, focal_sites |-> f]

\* what ancestor_descriptors may return: every site is focal in at most
\* one descriptor, group g[s] of site s has time tg[g[s]], the order is any
DescriptorSets ==
    {{Descriptor(tg[n], SortedSeq({s \in Sites : g[s] = n})) :
          n \in {g[s] : s \in Sites} \ {0}} :
        g \in [Sites -> 0 .. NumSites], tg \in [1 .. NumSites -> 1 .. MaxTime]}

DescriptorInputs ==
    UNION {{d \in [1 .. Cardinality(D) -> D] :
               \A a, b \in 1 .. Cardinality(D) : a # b => d[a] # d[b]} :
           D \in DescriptorSets}

\* Python's a > b on tuples of integers
RECURSIVE tuple_greater(_, _)
tuple_greater(a, b) ==
    IF a = <<>> THEN FALSE
    ELSE IF b = <<>> THEN TRUE
    ELSE IF a[1] # b[1] THEN a[1] > b[1]
    ELSE tuple_greater(Tail(a), Tail(b))

\* variant: the descriptors are compared by time alone
descriptor_greater_by_time(a, b) == a.time > b.time

\* (t, tuple(focal_sites)) > (t', tuple(focal_sites'))
descriptor_greater(a, b) ==
    \/ a.time > b.time
    \/ a.time = b.time /\ tuple_greater(a.focal_sites, b.focal_sites)

\* sorted(d, reverse=True): descending, equal items in their given order
RECURSIVE sorted_reverse(_)
sorted_reverse(d) ==
    IF d = <<>> THEN <<>>
    ELSE LET n == Len(d)
             srt == sorted_reverse(SubSeq(d, 1, n - 1))
             at == Cardinality({i \in 1 .. (n - 1) :
                                   ~descriptor_greater(d[n], srt[i])})
         IN SubSeq(srt, 1, at) \o <<d[n]>> \o SubSeq(srt, at + 1, n - 1)

\* len(self.timepoint_to_epoch): the distinct times of the descriptors
num_timepoints(ds) == Cardinality({ds[i].time : i \in 1 .. Len(ds)})

\* Times of the ancestor data are kept as multiples of 1 / num_timepoints,
\* the unit in which av_timestep = max time / num_timepoints is max time.
av_timestep(ds) == MaxOf({ds[i].time : i \in 1 .. Len(ds)})
root_time(ds) ==
    MaxOf({ds[i].time : i \in 1 .. Len(ds)}) * num_timepoints(ds)
        + av_timestep(ds)

\* the ancestor builder's haplotype for a set of focal sites: it spans the
\* focal sites and carries the derived allele at each of them
make_ancestor(focal_sites) ==
    LET start == focal_sites[1]
        end == focal_sites[Len(focal_sites)] + 1
    IN [start |-> start, end |-> end,
        haplotype |-> [s \in start .. (end - 1) |->
                          IF \E i \in 1 .. Len(focal_sites) : focal_sites[i] = s
                          THEN 1 ELSE 0]]

add_ancestor(data, start, end, t, focal_sites, haplotype) ==
    Append(data, [start |-> start, end |-> end, time |-> t,
                  focal_sites |-> focal_sites, haplotype |-> haplotype])

\* self.num_sites of the generator: the inference sites, among them every
\* focal site of a descriptor
generator_num_sites ==
    IF spc # "idle" THEN gen_num_sites
    ELSE MaxOf({NumSites} \cup
               UNION {{descriptors_in[i].focal_sites[n] + 1 :
                          n \in 1 .. Len(descriptors_in[i].focal_sites)} :
                      i \in 1 .. Len(descriptors_in)})

generator_sites == 0 .. (generator_num_sites - 1)

\* variant: the ultimate ancestor is the only root added
add_ultimate_ancestor_only(data, ds) ==
    add_ancestor(data, 0, generator_num_sites, root_time(ds), <<>>,
                 [s \in generator_sites |-> 0])

\* the virtual root and the ultimate ancestor, both all zeros
add_root_ancestors(data, ds) ==
    LET a == [s \in generator_sites |-> 0]
        vroot == add_ancestor(data, 0, generator_num_sites,
                              root_time(ds) + av_timestep(ds), <<>>, a)
    IN add_ancestor(vroot, 0, generator_num_sites, root_time(ds), <<>>, a)

\* the ancestor built for self.descriptors[index], as _run_threaded queues it
BuiltItem(index, d, ds) ==
    LET m == make_ancestor(d.focal_sites)
    IN [index |-> index, time |-> d.time * num_timepoints(ds),
        focal_sites |-> d.focal_sites,
        start |-> m.start, end |-> m.end, haplotype |-> m.haplotype]

GenRunning == gpc \notin {"idle", "done"}

\* run: sort the descriptors, add the roots, pick the mode
GenRun ==
    /\ gpc = "run"
    /\ descriptors' = sorted_reverse(descriptors_in)
    /\ IF Len(descriptors') > 0
       THEN /\ generated' = add_root_ancestors(generated, descriptors')
            /\ gpc' = IF num_threads <= 0 THEN "sync" ELSE "start_threads"
       ELSE /\ generated' = generated
            /\ gpc' = "done"
    /\ UNCHANGED <<site_vars, val_vars, matcher_vars, num_threads,
                   descriptors_in, next_desc, stops, build_queue, add_queue,
                   next_add_index, bworker, add_lock>>

\* one iteration of the loop of _run_synchronous
RunSynchronousStep ==
    /\ gpc = "sync"
    /\ next_desc < Len(descriptors)
    /\ LET b == BuiltItem(next_desc, descriptors[next_desc + 1], descriptors)
       IN generated' = add_ancestor(generated, b.start, b.end, b.time,
                                    b.focal_sites, b.haplotype)
    /\ next_desc' = next_desc + 1
    /\ gpc' = IF next_desc' = Len(descriptors) THEN "done" ELSE gpc
    /\ UNCHANGED <<site_vars, val_vars, matcher_vars, num_threads,
                   descriptors_in, descriptors, stops, build_queue, add_queue,
                   next_add_index, bworker, add_lock>>

\* _run_threaded: the build threads are created and started
StartBuildThreads ==
    /\ gpc = "start_threads"
    /\ bworker' = [w \in Workers |->
                      IF w <= num_threads
                      THEN [state |-> "waiting",
                            a |-> [s \in generator_sites |-> 0]]
                      ELSE [state |-> "unstarted"]]
    /\ gpc' = "put"
    /\ UNCHANGED <<site_vars, val_vars, matcher_vars, num_threads,
                   descriptors_in, descriptors, generated, next_desc, stops,
                   build_queue, add_queue, next_add_index, add_lock>>

\* variant: a build queue that takes nothing
queue_depth_none == 0 * num_threads

\* queue.Queue(queue_depth)
queue_depth == 8 * num_threads

\* build_queue.put((index, t, focal_sites)), blocking while the queue is full
PutWork ==
    /\ gpc = "put"
    /\ next_desc < Len(descriptors)
    /\ Len(build_queue) < queue_depth
    /\ build_queue' = Append(build_queue,
                             [index |-> next_desc,
                              descriptor |-> descriptors[next_desc + 1]])
    /\ next_desc' = next_desc + 1
    /\ gpc' = IF next_desc' = Len(descriptors) THEN "stop" ELSE gpc
    /\ UNCHANGED <<site_vars, val_vars, matcher_vars, num_threads,
                   descriptors_in, descriptors, generated, stops, add_queue,
                   next_add_index, bworker, add_lock>>

\* build_queue.put(None), once per worker
PutStop ==
    /\ gpc = "stop"
    /\ stops < num_threads
    /\ Len(build_queue) < queue_depth
    /\ build_queue' = Append(build_queue, [index |-> -1])
    /\ stops' = stops + 1
    /\ gpc' = IF stops' = num_threads THEN "join" ELSE gpc
    /\ UNCHANGED <<site_vars, val_vars, matcher_vars, num_threads,
                   descriptors_in, descriptors, generated, next_desc,
                   add_queue, next_add_index, bworker, add_lock>>

\* make_ancestor(focal_sites, a): the haplotype is written into the
\* worker's buffer a between start and end, the rest of a is left as it was
make_ancestor_into(focal_sites, a) ==
    LET m == make_ancestor(focal_sites)
    IN [start |-> m.start, end |-> m.end,
        a |-> [s \in DOMAIN a |->
                  IF m.start <= s /\ s < m.end THEN m.haplotype[s] ELSE a[s]]]

\* build_worker: build_queue.get() and, for a descriptor, make_ancestor
BuildWorkerGet(w) ==
    /\ GenRunning
    /\ bworker[w].state = "waiting"
    /\ build_queue # <<>>
    /\ build_queue' = Tail(build_queue)
    /\ bworker' = [bworker EXCEPT ![w] =
                      IF Head(build_queue).index = -1
                      THEN [state |-> "exited"]
                      ELSE LET m == make_ancestor_into(
                                        Head(build_queue).descriptor.focal_sites,
                                        bworker[w].a)
                           IN [state |-> "built", a |-> m.a,
                               work |-> Head(build_queue),
                               start |-> m.start, end |-> m.end]]
    /\ UNCHANGED <<site_vars, val_vars, matcher_vars, num_threads,
                   descriptors_in, gpc, descriptors, generated, next_desc,
                   stops, add_queue, next_add_index, add_lock>>

\* variant: the lock is taken whoever holds it
lock_free_always(l) == TRUE

lock_free(l) == l = 0

\* build_worker: with add_lock, blocking while another thread holds it
BuildWorkerLock(w) ==
    /\ GenRunning
    /\ bworker[w].state = "built"
    /\ lock_free(add_lock)
    /\ add_lock' = w
    /\ bworker' = [bworker EXCEPT ![w].state = "locked"]
    /\ UNCHANGED <<site_vars, val_vars, matcher_vars, num_threads,
                   descriptors_in, gpc, descriptors, generated, next_desc,
                   stops, build_queue, add_queue, next_add_index>>

\* a[start:end].copy() and the tuple pushed on the add queue
copied_item(bw, ds) ==
    [index |-> bw.work.index,
     time |-> bw.work.descriptor.time * num_timepoints(ds),
     focal_sites |-> bw.work.descriptor.focal_sites,
     start |-> bw.start, end |-> bw.end,
     haplotype |-> [s \in bw.start .. (bw.end - 1) |-> bw.a[s]]]

\* variant: the add queue is emptied in index order whatever index is due
RECURSIVE drain_add_queue_eager(_, _, _)
drain_add_queue_eager(q, n, data) ==
    IF q = {} THEN [add_queue |-> q, next_add_index |-> n, data |-> data]
    ELSE LET b == CHOOSE x \in q : \A y \in q : x.index <= y.index
         IN drain_add_queue_eager(q \ {b}, n + 1,
                add_ancestor(data, b.start, b.end, b.time, b.focal_sites,
                             b.haplotype))

\* drain_add_queue: pop while the smallest index is the one due
RECURSIVE drain_add_queue(_, _, _)
drain_add_queue(q, n, data) ==
    IF q = {} \/ \A x \in q : x.index # n
    THEN [add_queue |-> q, next_add_index |-> n, data |-> data]
    ELSE LET b == CHOOSE x \in q : x.index = n
         IN drain_add_queue(q \ {b}, n + 1,
                add_ancestor(data, b.start, b.end, b.time, b.focal_sites,
                             b.haplotype))

\* build_worker, under add_lock: copy the haplotype out of the buffer, push
\* the built ancestor, drain, and leave the with block
BuildWorkerAdd(w) ==
    /\ GenRunning
    /\ bworker[w].state = "locked"
    /\ LET d == drain_add_queue(
                    add_queue \cup {copied_item(bworker[w], descriptors)},
                    next_add_index, generated)
       IN /\ add_queue' = d.add_queue
          /\ next_add_index' = d.next_add_index
          /\ generated' = d.data
    /\ add_lock' = 0
    /\ bworker' = [bworker EXCEPT ![w] =
                      [state |-> "waiting", a |-> bworker[w].a]]
    /\ UNCHANGED <<site_vars, val_vars, matcher_vars, num_threads,
                   descriptors_in, gpc, descriptors, next_desc, stops,
                   build_queue>>

\* the joins of _run_threaded and its last drain
JoinBuildThreads ==
    /\ gpc = "join"
    /\ \A w \in Workers : w <= num_threads => bworker[w].state = "exited"
    /\ LET d == drain_add_queue(add_queue, next_add_index, generated)
       IN /\ add_queue' = d.add_queue
          /\ next_add_index' = d.next_add_index
          /\ generated' = d.data
    /\ gpc' = "done"
    /\ UNCHANGED <<site_vars, val_vars, matcher_vars, num_threads,
                   descriptors_in, descriptors, next_desc, stops, build_queue,
                   bworker, add_lock>>

\* ------------------------------------------- the ancestor data file
\* The arrays of an ancestor data file: one entry per ancestor in start, end,
\* time and genotypes, the focal sites of all ancestors in one array, and
\* focal_sites_offset[j] .. focal_sites_offset[j + 1] the part of ancestor j.
EmptyStore ==
    [start |-> <<>>, end |-> <<>>, time |-> <<>>, focal_sites |-> <<>>,
     focal_sites_offset |-> <<0>>, genotypes |-> <<>>]

\* variant: the offsets hold the number of focal sites of each ancestor
store_offset_count(st, focal_sites) == Len(focal_sites)

\* the offset written for a new ancestor: the end of its focal sites
store_offset(st, focal_sites) == Len(st.focal_sites) + Len(focal_sites)

store_add_ancestor(st, a) ==
    [start |-> Append(st.start, a.start),
     end |-> Append(st.end, a.end),
     time |-> Append(st.time, a.time),
     focal_sites |-> st.focal_sites \o a.focal_sites,
     focal_sites_offset |->
        Append(st.focal_sites_offset, store_offset(st, a.focal_sites)),
     genotypes |-> Append(st.genotypes, a.haplotype)]

\* the file after the add_ancestor calls of the sequence calls, in order
RECURSIVE store_of(_)
store_of(calls) ==
    IF calls = <<>> THEN EmptyStore
    ELSE store_add_ancestor(store_of(SubSeq(calls, 1, Len(calls) - 1)),
                            calls[Len(calls)])

store_num_ancestors(st) == Len(st.start)

\* the ancestor of the given id in the file, ids counted from 0
store_ancestor(st, id) ==
    [start |-> st.start[id + 1],
     end |-> st.end[id + 1],
     time |-> st.time[id + 1],
     focal_sites |-> SubSeq(st.focal_sites, st.focal_sites_offset[id + 1] + 1,
                            st.focal_sites_offset[id + 2]),
     haplotype |-> st.genotypes[id + 1]]

\* ------------------------------------------------- Matcher.__init__
\* probabilities are held in ten-thousandths
ProbOne == 10000
ProbHalf == ProbOne \div 2

None == <<>>
Some(v) == <<v>>
ValueOf(o) == o[1]

\* e^(-n/8) in ten-thousandths, by repeated squaring and rounded down at each
\* step; less than one from ExpCap on
ExpStep == 8825
ExpCap == 80
RECURSIVE ExpNeg(_)
ExpNeg(n) ==
    IF n >= ExpCap THEN 0
    ELSE IF n <= 0 THEN ProbOne
    ELSE IF n % 2 = 0
         THEN LET h == ExpNeg(n \div 2) IN (h * h) \div ProbOne
         ELSE (ExpNeg(n - 1) * ExpStep) \div ProbOne

num_intervals == IF NumSites - 1 > 0 THEN NumSites - 1 ELSE 0

\* np.diff(positions) * rho, rho in eighths of a Morgan per unit of length
recombination_rate_to_dist(rho) ==
    [i \in 1 .. (NumSites - 1) |->
        (sites_position(i) - sites_position(i - 1)) * rho]

\* variant: the probability of at least one recombination
recombination_dist_to_prob_undivided(genetic_distances) ==
    [i \in DOMAIN genetic_distances |->
        ProbOne - ExpNeg(genetic_distances[i] * 2)]

\* (1 - exp(-d * 2)) / 2
recombination_dist_to_prob(genetic_distances) ==
    [i \in DOMAIN genetic_distances |->
        (ProbOne - ExpNeg(genetic_distances[i] * 2)) \div 2]

\* np.median
median(d) ==
    LET n == Len(d)
        rank(m) == Cardinality({i \in 1 .. n : d[i] <= m})
        vals == {d[i] : i \in 1 .. n}
        lower == MinOf({m \in vals : 2 * rank(m) >= n})
        upper == MinOf({m \in vals : 2 * rank(m) >= n + 1})
    IN (lower + upper) \div 2

\* (1 - exp(-d * ratio * num_alleles)) / num_alleles, for each site
mismatch_ratio_to_prob(ratio, genetic_distance, num_alleles) ==
    [s \in DOMAIN num_alleles |->
        (ProbOne - ExpNeg(genetic_distance * ratio * num_alleles[s]))
            \div num_alleles[s]]

Direct(a) == a.recombination # None \/ a.mismatch # None

\* the special case of tsinfer 0.1: constant probabilities
UseDefaults(a) ==
    (a.recombination_rate = None /\ a.mismatch_ratio = None) \/ num_intervals = 0

\* the warnings Matcher.__init__ logs
init_warnings(a) == IF NumSites = 0 THEN {"No sites used for inference"} ELSE {}

\* variant: rates next to the arrays are let through
combination_error_lenient(a) ==
    IF Direct(a)
    THEN IF a.recombination = None \/ a.mismatch = None
         THEN "requires both recombination and mismatch"
         ELSE "none"
    ELSE IF a.recombination_rate = None /\ a.mismatch_ratio # None
         THEN "cannot use mismatch without setting recombination"
         ELSE "none"

\* the checks on the combination of the parameters
combination_error(a) ==
    IF Direct(a)
    THEN IF a.recombination = None \/ a.mismatch = None
         THEN "requires both recombination and mismatch"
         ELSE IF a.recombination_rate # None \/ a.mismatch_ratio # None
         THEN "cannot simultaneously specify"
         ELSE "none"
    ELSE IF a.recombination_rate = None /\ a.mismatch_ratio # None
         THEN "cannot use mismatch without setting recombination"
         ELSE "none"

\* the local variable recombination once the branches have run
recombination_array(a) ==
    IF Direct(a) THEN ValueOf(a.recombination)
    ELSE IF UseDefaults(a) THEN [i \in 1 .. num_intervals |-> ProbOne \div 100]
    ELSE recombination_dist_to_prob(
             recombination_rate_to_dist(ValueOf(a.recombination_rate)))

\* the local variable mismatch once the branches have run; the default
\* of 1e-20 is 0 in ten-thousandths
mismatch_array(a) ==
    IF Direct(a) THEN ValueOf(a.mismatch)
    ELSE IF UseDefaults(a) THEN [i \in 1 .. NumSites |-> 0]
    ELSE mismatch_ratio_to_prob(
             IF a.mismatch_ratio = None THEN 1 ELSE ValueOf(a.mismatch_ratio),
             median(recombination_rate_to_dist(ValueOf(a.recombination_rate))),
             a.num_alleles)

InUnit(arr) == \A i \in DOMAIN arr : arr[i] >= 0 /\ arr[i] <= ProbOne

\* the checks on the two arrays
array_error(a) ==
    IF Len(recombination_array(a)) # num_intervals
    THEN "bad length for recombination array"
    ELSE IF Len(mismatch_array(a)) # NumSites
    THEN "bad length for mismatch array"
    ELSE IF ~InUnit(recombination_array(a))
    THEN "recombination probabilities not between 0 and 1"
    ELSE IF ~InUnit(mismatch_array(a))
    THEN "mismatch probabilities not between 0 and 1"
    ELSE "none"

engine_error(a) ==
    IF a.engine \notin {"C", "P"} THEN "unknown engine" ELSE "none"

multiallele_error(a) ==
    IF (\E s \in DOMAIN a.num_alleles : a.num_alleles[s] > 2)
       /\ ~a.allow_multiallele
    THEN "cannot match with more than 2 alleles"
    ELSE "none"

\* the first of the errors, in the order of the checks
FirstError(errs) ==
    IF \A i \in 1 .. Len(errs) : errs[i] = "none" THEN "none"
    ELSE errs[MinOf({i \in 1 .. Len(errs) : errs[i] # "none"})]

matcher_init_error(a) ==
    IF combination_error(a) # "none" THEN combination_error(a)
    ELSE FirstError(<<array_error(a), engine_error(a), multiallele_error(a)>>)

\* Matcher.__init__
MatcherInit ==
    /\ vpc = "init"
    /\ IF matcher_init_error(args) # "none"
       THEN /\ verror' = matcher_init_error(args)
            /\ vpc' = "raised"
            /\ UNCHANGED <<builder, recombination, mismatch>>
       ELSE /\ recombination' = recombination_array(args)
            /\ mismatch' = mismatch_array(args)
            /\ builder' = Some(NewBuilder)
            /\ vpc' = "restore"
            /\ verror' = verror
    /\ UNCHANGED <<site_vars, matcher_vars, gen_vars, num_threads, args,
                   sample_indexes, post>>

\* the checks of SampleMatcher.restore_tree_sequence_builder
restore_message(a) ==
    IF a.ts_sequence_length # sequence_length
    THEN "sequence length is different"
    ELSE IF \E u \in DOMAIN a.tables.nodes : a.tables.nodes[u].time <= 0
    THEN "all nodes must have time > 0"
    ELSE IF \E e \in a.tables.edges :
               position_map[searchsorted(position_map, e.left)] # e.left
    THEN "invalid left coordinates"
    ELSE IF \E e \in a.tables.edges :
               position_map[searchsorted(position_map, e.right)] # e.right
    THEN "invalid right coordinates"
    ELSE "none"

\* SampleMatcher.__init__ after Matcher.__init__
RestoreBuilder ==
    /\ vpc = "restore"
    /\ IF restore_message(args) # "none"
       THEN /\ verror' = restore_message(args)
            /\ vpc' = "raised"
            /\ builder' = builder
       ELSE /\ builder' = Some(restore_tree_sequence_builder(args.tables))
            /\ vpc' = "indexes"
            /\ verror' = verror
    /\ UNCHANGED <<site_vars, matcher_vars, gen_vars, num_threads, args,
                   recombination, mismatch, sample_indexes, post>>

\* variant: the order of the indexes is not looked at
check_order_skipped(indexes) == "none"

check_order(indexes) ==
    IF \E i \in 1 .. (Len(indexes) - 1) : indexes[i] >= indexes[i + 1]
    THEN "sample indexes must be in increasing order"
    ELSE "none"

\* check_sample_indexes: the error it raises
check_sample_indexes_error(indexes) ==
    IF indexes = None THEN "none"
    ELSE LET ix == ValueOf(indexes)
         IN IF Len(ix) = 0 THEN "must supply at least one sample"
            ELSE IF \E i \in 1 .. Len(ix) : ix[i] < 0 \/ ix[i] >= MaxSamples
            THEN "sample index out of bounds"
            ELSE check_order(ix)

\* check_sample_indexes: the indexes it returns
check_sample_indexes(indexes) ==
    IF indexes = None THEN [i \in 1 .. MaxSamples |-> i - 1]
    ELSE ValueOf(indexes)

\* the public match_samples after the SampleMatcher has been made
CheckSampleIndexes ==
    /\ vpc = "indexes"
    /\ IF check_sample_indexes_error(args.indexes) # "none"
       THEN /\ verror' = check_sample_indexes_error(args.indexes)
            /\ vpc' = "raised"
            /\ sample_indexes' = sample_indexes
       ELSE /\ sample_indexes' = check_sample_indexes(args.indexes)
            /\ vpc' = "match"
            /\ verror' = verror
    /\ UNCHANGED <<site_vars, matcher_vars, gen_vars, num_threads, args,
                   builder, recombination, mismatch, post>>

\* ----------------------------- match_samples: simplify and post_process
\* the arguments simplify and post_process as given; the locals post_process
\* (here "resolved") and simplify_only; and the call of _post_process made
PostState(simplify, post_process) ==
    [simplify |-> simplify, post_process |-> post_process,
     resolved |-> post_process, simplify_only |-> FALSE, ran |-> "none"]

NoPost == PostState(None, None)

\* variant: simplify=True asks for the whole post-processing
resolve_simplify_full(p) ==
    IF p.simplify = None
    THEN IF p.post_process = None
         THEN [p EXCEPT !.resolved = Some(TRUE)]
         ELSE p
    ELSE IF ValueOf(p.simplify)
         THEN [p EXCEPT !.resolved = Some(TRUE)]
         ELSE [p EXCEPT !.resolved = Some(FALSE)]

\* the assignments at the start of match_samples, when no error is raised
resolve_simplify(p) ==
    IF p.simplify = None
    THEN IF p.post_process = None
         THEN [p EXCEPT !.resolved = Some(TRUE)]
         ELSE p
    ELSE IF ValueOf(p.simplify)
         THEN [p EXCEPT !.simplify_only = TRUE, !.resolved = Some(TRUE)]
         ELSE [p EXCEPT !.resolved = Some(FALSE)]

\* the message is written without its quote marks
resolve_error(p) ==
    IF p.simplify # None /\ p.post_process # None
    THEN "Cant specify both simplify and post_process"
    ELSE "none"

\* match_samples up to the construction of the SampleMatcher
ResolvePostProcess ==
    /\ vpc = "enter"
    /\ IF resolve_error(post) # "none"
       THEN /\ verror' = resolve_error(post)
            /\ vpc' = "raised"
            /\ post' = post
       ELSE /\ post' = resolve_simplify(post)
            /\ vpc' = "init"
            /\ verror' = verror
    /\ UNCHANGED <<site_vars, matcher_vars, gen_vars, num_threads, args,
                   builder, recombination, mismatch, sample_indexes>>

\* post_process: everything, or only the simplification
post_process_mode(simplify_only) ==
    IF simplify_only THEN "simplify_only" ELSE "full"

\* match_samples after the matching: the post-processing of the tree sequence
PostProcessStep ==
    /\ vpc = "match"
    /\ post.resolved # None
    /\ post' = IF ValueOf(post.resolved)
               THEN [post EXCEPT !.ran = post_process_mode(post.simplify_only)]
               ELSE post
    /\ vpc' = "returned"
    /\ UNCHANGED <<site_vars, matcher_vars, gen_vars, num_threads, args,
                   builder, recombination, mismatch, sample_indexes, verror>>

\* ------------------------------------- generate_ancestors: the sites
UNKNOWN_TIME == [kind |-> "unknown", num |-> 0, den |-> 1]
NAN == [kind |-> "nan", num |-> 0, den |-> 1]
FiniteTime(n, d) == [kind |-> "finite", num |-> n, den |-> d]

isfinite(t) == t.kind = "finite"
is_unknown_time(t) == t.kind = "unknown"
isnan(t) == t.kind \in {"nan", "unknown"}

\* variant: any time that is not a number counts as unknown
mixed_times_nan(sites) ==
    /\ \E i \in 1 .. Len(sites) : isfinite(sites[i].time)
    /\ \E i \in 1 .. Len(sites) : isnan(sites[i].time)

\* the check of generate_ancestors on sample_data.sites_time
mixed_times(sites) ==
    /\ \E i \in 1 .. Len(sites) : isfinite(sites[i].time)
    /\ \E i \in 1 .. Len(sites) : is_unknown_time(sites[i].time)

\* allele_counts on genotypes recoded with the ancestral allele as 0
allele_counts(genotypes) ==
    LET n_known == Cardinality({i \in DOMAIN genotypes :
                                    genotypes[i] # MISSING_DATA})
        n_ancestral == Cardinality({i \in DOMAIN genotypes : genotypes[i] = 0})
    IN [known |-> n_known, ancestral |-> n_ancestral,
        derived |-> n_known - n_ancestral]

\* the time a used site is added with
site_time(site) ==
    IF is_unknown_time(site.time)
    THEN FiniteTime(allele_counts(site.genotypes).derived,
                    allele_counts(site.genotypes).known)
    ELSE site.time

\* variant: a single carrier of the derived allele is enough
use_site_singletons(site, excluded) ==
    LET counts == allele_counts(site.genotypes)
    IN /\ site.position \notin excluded
       /\ site.num_alleles = 2
       /\ 0 < counts.derived /\ counts.derived < counts.known
       /\ site.ancestral_known
       /\ ~isnan(site_time(site))

\* use_site at the end of an iteration of the loop of add_sites
use_site(site, excluded) ==
    LET counts == allele_counts(site.genotypes)
    IN /\ site.position \notin excluded
       /\ site.num_alleles = 2
       /\ 1 < counts.derived /\ counts.derived < counts.known
       /\ site.ancestral_known
       /\ ~isnan(site_time(site))

\* generate_ancestors up to the call of add_sites
CheckSiteTimes ==
    /\ spc = "check"
    /\ IF mixed_times(sample_sites)
       THEN /\ serror' = "mixes user-specified times with times-as-frequencies"
            /\ spc' = "raised"
            /\ ancestor_builder' = ancestor_builder
       ELSE /\ ancestor_builder' = Some(<<>>)
            /\ spc' = "add_sites"
            /\ serror' = serror
    /\ UNCHANGED <<val_vars, matcher_vars, gen_vars, num_threads, sample_sites,
                   exclude_positions, site_j, inference_site_id,
                   inference_site_ids, gen_num_sites>>

\* one iteration of the loop of add_sites over the variants
AddSitesStep ==
    /\ spc = "add_sites"
    /\ site_j < Len(sample_sites)
    /\ LET site == sample_sites[site_j + 1]
       IN IF use_site(site, exclude_positions)
          THEN /\ ancestor_builder' =
                     Some(Append(ValueOf(ancestor_builder),
                                 [time |-> site_time(site),
                                  genotypes |-> site.genotypes]))
               /\ inference_site_id' = Append(inference_site_id, site_j)
               /\ gen_num_sites' = gen_num_sites + 1
          ELSE UNCHANGED <<ancestor_builder, inference_site_id, gen_num_sites>>
    /\ site_j' = site_j + 1
    /\ UNCHANGED <<val_vars, matcher_vars, gen_vars, num_threads, sample_sites,
                   exclude_positions, spc, inference_site_ids, serror>>

\* add_sites after the loop
AddSitesEnd ==
    /\ spc = "add_sites"
    /\ site_j = Len(sample_sites)
    /\ inference_site_ids' = inference_site_id
    /\ spc' = "run"
    /\ UNCHANGED <<val_vars, matcher_vars, gen_vars, num_threads, sample_sites,
                   exclude_positions, site_j, inference_site_id, gen_num_sites,
                   ancestor_builder, serror>>

\* the sites of a sample data file of four samples
SiteGenotypes ==
    {<<1, 1, 0, 0>>, <<1, 1, 0, MISSING_DATA>>, <<1, 0, 0, 0>>,
     <<1, 1, 1, 1>>, <<1, 1, MISSING_DATA, MISSING_DATA>>}

SitePalette ==
    {[num_alleles |-> 2, ancestral_known |-> TRUE, genotypes |-> g, time |-> t] :
        g \in SiteGenotypes, t \in {UNKNOWN_TIME}}
    \cup
    {[num_alleles |-> 2, ancestral_known |-> TRUE,
      genotypes |-> <<1, 1, 0, 0>>, time |-> t] : t \in {NAN, FiniteTime(1, 1)}}
    \cup
    {[num_alleles |-> 2, ancestral_known |-> FALSE,
      genotypes |-> <<1, 1, 0, 0>>, time |-> FiniteTime(1, 1)],
     [num_alleles |-> 3, ancestral_known |-> TRUE,
      genotypes |-> <<1, 2, 0, 0>>, time |-> UNKNOWN_TIME],
     [num_alleles |-> 1, ancestral_known |-> TRUE,
      genotypes |-> <<0, 0, 0, 0>>, time |-> NAN]}

SampleDataSites ==
    {[i \in 1 .. NumSites |->
        [position |-> sites_position(i - 1),
         num_alleles |-> f[i].num_alleles,
         ancestral_known |-> f[i].ancestral_known,
         genotypes |-> f[i].genotypes,
         time |-> f[i].time]] : f \in [1 .. NumSites -> SitePalette]}

ExcludeSets == {{}, {sites_position(0)}, {sites_position(NumSites - 1) + 1}}

SiteState(sites, excluded) ==
    /\ sample_sites = sites
    /\ exclude_positions = excluded
    /\ site_j = 0
    /\ inference_site_id = <<>>
    /\ inference_site_ids = <<>>
    /\ gen_num_sites = 0
    /\ ancestor_builder = None
    /\ serror = "none"

\* ------------------------- generate_ancestors: from the sites to run
\* descriptor times are whole numbers of 1 / TimeDen
TimeDen == 12

\* the time of an added site as a descriptor time
descriptor_time(t) == (t.num * TimeDen) \div t.den

\* ancestor_descriptors of the ancestor builder: the sites added with the same
\* time and the same genotypes are the focal sites of one descriptor, which has
\* their time; the descriptors come in the order of their first focal site
ancestor_descriptors(added) ==
    LET same(a, b) == added[a] = added[b]
        firsts == SortedSeq({a \in 1 .. Len(added) :
                                \A b \in 1 .. (a - 1) : ~same(a, b)})
    IN [n \in 1 .. Len(firsts) |->
           Descriptor(descriptor_time(added[firsts[n]].time),
                      SortedSeq({b - 1 : b \in {b \in 1 .. Len(added) :
                                                  same(firsts[n], b)}}))]

\* generate_ancestors: the call of run, which asks for the descriptors
AncestorDescriptors ==
    /\ spc = "run"
    /\ gpc = "idle"
    /\ descriptors_in' = ancestor_descriptors(ValueOf(ancestor_builder))
    /\ gpc' = "run"
    /\ spc' = "generating"
    /\ UNCHANGED <<val_vars, matcher_vars, num_threads, sample_sites,
                   exclude_positions, site_j, inference_site_id,
                   inference_site_ids, gen_num_sites, ancestor_builder, serror,
                   descriptors, generated, next_desc, stops, build_queue,
                   add_queue, next_add_index, bworker, add_lock>>

\* sample data in which every site is fit for inference: the times are all
\* frequencies or all given, and a given time is any number that is not nan
UsableGenotypes ==
    {<<1, 1, 0, 0>>, <<1, 1, 0, MISSING_DATA>>, <<1, 1, 1, 0>>}

GivenTimes ==
    {FiniteTime(1, 1), FiniteTime(2, 1), FiniteTime(0, 1), FiniteTime(0 - 1, 1)}

UsablePalette ==
    {[num_alleles |-> 2, ancestral_known |-> TRUE, genotypes |-> g,
      time |-> UNKNOWN_TIME] : g \in UsableGenotypes}
    \cup
    {[num_alleles |-> 2, ancestral_known |-> TRUE,
      genotypes |-> <<1, 1, 0, 0>>, time |-> t] : t \in GivenTimes}

UsableSites ==
    {[i \in 1 .. NumSites |->
        [position |-> sites_position(i - 1),
         num_alleles |-> f[i].num_alleles,
         ancestral_known |-> f[i].ancestral_known,
         genotypes |-> f[i].genotypes,
         time |-> f[i].time]] : f \in [1 .. NumSites -> UsablePalette]}

\* ------------------------------------------- the arguments of a run
ProbPalette == {0 - 1, 2000, 7000, ProbOne + 1}

ProbArrays(n) ==
    {[i \in 1 .. n |-> IF i = n THEN v ELSE 2000] : v \in ProbPalette}

RecombinationArgs ==
    {None, Some([i \in 1 .. (num_intervals + 1) |-> 2000])}
        \cup {Some(arr) : arr \in ProbArrays(num_intervals)}

MismatchArgs ==
    {None, Some([i \in 1 .. (NumSites - 1) |-> 2000])}
        \cup {Some(arr) : arr \in ProbArrays(NumSites)}

RateArgs == {None, Some(0), Some(1), Some(2 * MaxTime)}
RatioArgs == {None, Some(1), Some(MaxTime)}

\* the allele counts of the inference sites in the sample data
AlleleCounts ==
    {[s \in 1 .. NumSites |-> IF s = 1 THEN n ELSE 2] : n \in {2, 3}}

GoodTables ==
    [nodes |-> [u \in 0 .. 1 |-> [flags |-> 0, time |-> 2 - u]],
     edges |-> {[left |-> 0, right |-> sequence_length, parent |-> 0, child |-> 1]},
     mutations |-> {}]

TablesArgs ==
    {GoodTables,
     [GoodTables EXCEPT !.nodes[1].time = 0],
     [GoodTables EXCEPT !.edges =
         {[left |-> 5, right |-> sequence_length, parent |-> 0, child |-> 1]}],
     [GoodTables EXCEPT !.edges =
         {[left |-> 0, right |-> sequence_length - 1, parent |-> 0, child |-> 1]}]}

IndexesArgs ==
    {None, Some(<<>>), Some(<<0>>), Some(<<0 - 1>>), Some(<<MaxSamples>>),
     Some(<<0, 1>>), Some(<<1, 0>>), Some(<<0, 0>>)}

MatchSamplesArgs ==
  {a \in
    [recombination : RecombinationArgs,
     mismatch : MismatchArgs,
     recombination_rate : RateArgs,
     mismatch_ratio : RatioArgs,
     num_alleles : AlleleCounts,
     allow_multiallele : {FALSE},
     engine : {"C", "unknown"},
     ts_sequence_length : {sequence_length, sequence_length + 1},
     tables : TablesArgs,
     indexes : IndexesArgs] :
        a.ts_sequence_length # sequence_length => a.tables = GoodTables}

NoArgs ==
    [recombination |-> None, mismatch |-> None, recombination_rate |-> None,
     mismatch_ratio |-> None, num_alleles |-> <<>>, allow_multiallele |-> FALSE,
     engine |-> "C", ts_sequence_length |-> sequence_length,
     tables |-> NoTables, indexes |-> None]

ValState(a) ==
    /\ args = a
    /\ post = NoPost
    /\ builder = None
    /\ recombination = <<>>
    /\ mismatch = <<>>
    /\ sample_indexes = <<>>
    /\ verror = "none"

\* ------------------------------------------------------ specification
\* inline matching, one worker thread, and the largest number of workers
ThreadCounts == {0, 1, MaxThreads}

InitState ==
    /\ num_threads \in ThreadCounts
    /\ path_compression \in BOOLEAN
    /\ pc = "ma_loop"
    /\ match_progress = progress_get("ma_match", num_ancestors)
    /\ tsb = add_ancestor_nodes(NewBuilder, epoch, 0)
    /\ ancestors = IF num_ancestors > 0 THEN 1 ELSE 0
    /\ j = start_epoch
    /\ taken = 0
    /\ worker = [w \in Workers |-> Idle]
    /\ buffer = <<>>
    /\ results = <<>>
    /\ k = 0
    /\ sample_id_map = <<>>
    /\ times = <<>>
    /\ ancestors_ts = NoTables
    /\ error = "none"
    /\ out_ts = NoTables
    /\ local_data = <<>>
    /\ matchers = {}
    /\ uses = {}
    /\ round_base = tsb
    /\ log = <<>>

\* the generator before run is called on descriptors d
GenState(d) ==
    /\ descriptors_in = d
    /\ descriptors = <<>>
    /\ generated = <<>>
    /\ next_desc = 0
    /\ stops = 0
    /\ build_queue = <<>>
    /\ add_queue = {}
    /\ next_add_index = 0
    /\ bworker = [w \in Workers |-> [state |-> "unstarted"]]
    /\ add_lock = 0

\* match_ancestors alone on any ancestor data, or match_ancestors followed
\* by match_samples
Init ==
    /\ \/ /\ ancestor_data \in AncestorDataSets
          /\ samples = <<>>
       \/ /\ ancestor_data = PipelineAncestorData
          /\ samples \in SampleSets
    /\ InitState
    /\ gpc = "idle"
    /\ GenState(<<>>)
    /\ vpc = "idle"
    /\ ValState(NoArgs)
    /\ spc = "idle"
    /\ SiteState(<<>>, {})

Next ==
    \/ StartEpoch
    \/ SeqMatch
    \/ \E w \in Workers : WorkerTake(w)
    \/ \E w \in Workers : WorkerFinish(w)
    \/ Join
    \/ CompleteEpochStep
    \/ StoreOutput
    \/ SampleMatcherInit
    \/ MatchSamplesStart
    \/ CommitSampleStep
    \/ Finalise
    \/ Augment

Spec == Init /\ [][Next]_vars

\* generate_ancestors on any descriptors the ancestor builder may return
GenInit ==
    /\ \E d \in DescriptorInputs : GenState(d)
    /\ gpc = "run"
    /\ ancestor_data = <<>>
    /\ samples = <<>>
    /\ path_compression = FALSE
    /\ InitState
    /\ vpc = "idle"
    /\ ValState(NoArgs)
    /\ spc = "idle"
    /\ SiteState(<<>>, {})

GenNext ==
    \/ GenRun
    \/ RunSynchronousStep
    \/ StartBuildThreads
    \/ PutWork
    \/ PutStop
    \/ \E w \in Workers : BuildWorkerGet(w)
    \/ \E w \in Workers : BuildWorkerLock(w)
    \/ \E w \in Workers : BuildWorkerAdd(w)
    \/ JoinBuildThreads

GenSpec == GenInit /\ [][GenNext]_vars

\* the most descriptors of a long build
BuildSites == 9

\* the descriptors of n inference sites, each the focal site of its own
\* descriptor
build_descriptors(n) ==
    [i \in 1 .. n |-> Descriptor(1 + (i % MaxTime), <<i - 1>>)]

\* generate_ancestors on a few descriptors with any number of threads, and
\* with one thread on more descriptors than its build queue holds
BuildInit ==
    /\ \E n \in 0 .. BuildSites : GenState(build_descriptors(n))
    /\ Len(descriptors_in) > NumSites => num_threads = 1
    /\ gpc = "run"
    /\ ancestor_data = <<>>
    /\ samples = <<>>
    /\ path_compression = FALSE
    /\ InitState
    /\ vpc = "idle"
    /\ ValState(NoArgs)
    /\ spc = "idle"
    /\ SiteState(<<>>, {})

\* the steps of _run_threaded, of the main thread and of the workers
ThreadedNext ==
    \/ StartBuildThreads
    \/ PutWork
    \/ PutStop
    \/ \E w \in Workers : BuildWorkerGet(w)
    \/ \E w \in Workers : BuildWorkerLock(w)
    \/ \E w \in Workers : BuildWorkerAdd(w)
    \/ JoinBuildThreads

\* while a thread of _run_threaded can take a step, one is scheduled
BuildSpec == BuildInit /\ [][GenNext]_vars /\ WF_vars(ThreadedNext)

\* the public match_samples up to the call of SampleMatcher.match_samples
RunInit ==
    /\ \E a \in MatchSamplesArgs : ValState(a)
    /\ vpc = "init"
    /\ ancestor_data = <<>>
    /\ samples = <<>>
    /\ num_threads = 0
    /\ path_compression = FALSE
    /\ InitState
    /\ gpc = "idle"
    /\ GenState(<<>>)
    /\ spc = "idle"
    /\ SiteState(<<>>, {})

RunNext ==
    \/ MatcherInit
    \/ RestoreBuilder
    \/ CheckSampleIndexes

RunSpec == RunInit /\ [][RunNext]_vars

\* generate_ancestors up to the call of AncestorsGenerator.run
SitesInit ==
    /\ \E sites \in SampleDataSites, excluded \in ExcludeSets :
          SiteState(sites, excluded)
    /\ spc = "check"
    /\ ancestor_data = <<>>
    /\ samples = <<>>
    /\ num_threads = 0
    /\ path_compression = FALSE
    /\ InitState
    /\ gpc = "idle"
    /\ GenState(<<>>)
    /\ vpc = "idle"
    /\ ValState(NoArgs)

SitesNext ==
    \/ CheckSiteTimes
    \/ AddSitesStep
    \/ AddSitesEnd

SitesSpec == SitesInit /\ [][SitesNext]_vars

\* generate_ancestors from its first line to the end of run
RootInit ==
    /\ \E sites \in UsableSites : SiteState(sites, {})
    /\ spc = "check"
    /\ ancestor_data = <<>>
    /\ samples = <<>>
    /\ path_compression = FALSE
    /\ InitState
    /\ gpc = "idle"
    /\ GenState(<<>>)
    /\ vpc = "idle"
    /\ ValState(NoArgs)

RootNext ==
    \/ CheckSiteTimes
    \/ AddSitesStep
    \/ AddSitesEnd
    \/ AncestorDescriptors
    \/ GenNext

RootSpec == RootInit /\ [][RootNext]_vars

\* the public match_samples with default probabilities, from its first line
OptionalBool == {None, Some(TRUE), Some(FALSE)}

PostArgs ==
    {a \in MatchSamplesArgs :
        /\ a.recombination = None
        /\ a.mismatch = None
        /\ a.recombination_rate = None
        /\ a.mismatch_ratio = None}

PostInit ==
    /\ vpc = "enter"
    /\ args \in PostArgs
    /\ post \in {PostState(s, p) : s \in OptionalBool, p \in OptionalBool}
    /\ builder = None
    /\ recombination = <<>>
    /\ mismatch = <<>>
    /\ sample_indexes = <<>>
    /\ verror = "none"
    /\ ancestor_data = <<>>
    /\ samples = <<>>
    /\ InitState
    /\ num_threads = 0
    /\ ~path_compression
    /\ gpc = "idle"
    /\ GenState(<<>>)
    /\ spc = "idle"
    /\ SiteState(<<>>, {})

PostNext ==
    \/ ResolvePostProcess
    \/ MatcherInit
    \/ RestoreBuilder
    \/ CheckSampleIndexes
    \/ PostProcessStep

PostSpec == PostInit /\ [][PostNext]_vars

\* match_ancestors and match_samples on data without inference sites
NoSitesInit ==
    /\ ancestor_data = <<>>
    /\ samples \in NoSiteSamples
    /\ InitState
    /\ gpc = "idle"
    /\ GenState(<<>>)
    /\ vpc = "idle"
    /\ ValState(NoArgs)
    /\ spc = "idle"
    /\ SiteState(<<>>, {})

NoSitesNext ==
    \/ StoreOutput
    \/ SampleMatcherInit
    \/ MatchSamplesNoSites
    \/ Finalise

NoSitesSpec == NoSitesInit /\ [][NoSitesNext]_vars

TypeOK ==
    /\ pc \in {"ma_loop", "ma_match", "ma_commit", "ms_init", "ms_add",
               "ms_match", "ms_commit", "done", "finalised", "augmented"}
    /\ error \in {"none", "AssertionError", "MatchError", "ValueError"}

\* ================================================================ claims
Committed(b, u) == u \in DOMAIN b.path /\ b.path[u] # <<>>
Committing == pc \in {"ma_commit", "ms_commit"}
RoundResults ==
    {results[i] : i \in 1 .. Len(results)} \cup
    {buffer[i].result : i \in 1 .. Len(buffer)}
OutOfOrder == Len(buffer) >= 2 /\ buffer[1].index > buffer[2].index
\* the ancestors of epoch 0: the run of ancestors as old as the first one
FirstMatched == Cardinality({i \in DOMAIN epoch : epoch[i] = epoch[0]})

\* C1 (freeze visibility): every parent in a path found for an ancestor of
\* the current epoch is the virtual root or a node whose path was committed
\* when the epoch was frozen, and is never an ancestor as young as or
\* younger than the ancestor matched.
C1_FreezeVisibility ==
    (pc \in {"ma_match", "ma_commit"}) =>
        \A r \in RoundResults : \A p \in PathParents(r.path) :
            /\ p = 0 \/ Committed(round_base, p)
            /\ p < num_ancestors => epoch[p] > epoch[r.node]

C1_Witness ==
    /\ pc = "ma_commit"
    /\ num_threads >= 1
    /\ \E i \in 1 .. Len(results) : PathParents(results[i].path) # {0}

C3_PhaseSeparation ==
    /\ Matching => tsb = round_base /\ k = 0
    /\ Committing =>
          /\ \A w \in Workers : worker[w] = Idle
          /\ Len(results) = RoundSize
          /\ taken = RoundSize

C3_Witness ==
    /\ pc = "ms_commit"
    /\ k >= 1
    /\ num_threads >= 2
    /\ OutOfOrder

\* C4 (commit order): the commits are made in ascending node id, the
\* ancestors from the first matched one on and then the samples in the
\* order of the sample indexes, and the node check of the commit loop
\* never fails.
C4_CommitOrder ==
    /\ \A i \in 1 .. Len(log) :
          log[i].node =
              IF i <= num_ancestors - FirstMatched
              THEN FirstMatched + i - 1
              ELSE sample_id_map[i - (num_ancestors - FirstMatched)]
    /\ Committing =>
          /\ error # "AssertionError"
          /\ \A i \in 1 .. k : log[Len(log) - k + i] = results[i]

C4_Witness ==
    /\ pc = "ma_loop"
    /\ OutOfOrder
    /\ Len(log) >= 2

\* the commits of a run that matches the haplotypes of a round one after
\* the other against the builder as frozen when the round started
RECURSIVE RefAncestors(_, _, _)
RefAncestors(b, i, lg) ==
    IF i >= num_ancestors THEN [tsb |-> b, log |-> lg]
    ELSE LET fb == IF i = FirstMatched \/ epoch[i] # epoch[i - 1]
                   THEN freeze_indexes(b) ELSE b
             r == find_path(fb.frozen, i, ancestor_data[i].haplotype,
                            ancestor_data[i].start, ancestor_data[i].end)
         IN RefAncestors(commit_result(fb, i, r), i + 1, Append(lg, r))

RECURSIVE RefSamples(_, _, _, _)
RefSamples(b, first, n, lg) ==
    IF n > Len(samples) THEN lg
    ELSE LET r == find_path(b.frozen, first + n - 1, samples[n].haplotype,
                            0, NumSites)
         IN IF \E p \in PathParents(r.path) : samples[n].time > b.time[p]
            THEN lg
            ELSE RefSamples(commit_result(b, r.node, r), first, n + 1,
                            Append(lg, r))

RefLog ==
    IF num_ancestors = 0 \/ (1 < FirstMatched /\ FirstMatched < num_ancestors)
    THEN <<>>
    ELSE LET a == RefAncestors(add_ancestor_nodes(NewBuilder, epoch, 0),
                               FirstMatched, <<>>)
             b == restore_tree_sequence_builder(get_ancestors_tables(a.tsb))
         IN IF samples = <<>> THEN a.log
            ELSE RefSamples(add_sample_nodes(b, 1), num_nodes(b), 1, a.log)

\* C5 (determinism): when a run ends, with any number of threads and any
\* interleaving of the workers, and no matching call failed, its commits
\* are those of the one-after-the-other run on the same inputs.
C5_Determinism ==
    ((pc = "done" \/ error \in {"AssertionError", "ValueError"})
        => log = RefLog)

C5_Witness ==
    /\ pc = "done"
    /\ samples # <<>>
    /\ num_threads >= 2
    /\ OutOfOrder
    /\ \E i \in 1 .. Len(log) : Len(log[i].path) >= 2

\* C6 (time invariant): for every edge of the builder the parent is at
\* least as old as the child, and strictly older unless it is the root.
C6_TimeInvariant ==
    \A u \in DOMAIN tsb.path : \A i \in 1 .. Len(tsb.path[u]) :
        LET p == tsb.path[u][i].parent
        IN /\ tsb.time[p] >= tsb.time[u]
           /\ tsb.time[p] > tsb.time[u] \/ p = 0

\* C7 (younger parent is fatal): a step of the commit loop that meets a
\* sample with a parent younger than the sample raises ValueError and
\* leaves the builder alone.
C7_YoungerParentFatal ==
    [][(/\ pc = "ms_commit"
        /\ k < Len(results)
        /\ \E p \in PathParents(results[k + 1].path) :
              times[p] < times[results[k + 1].node])
       => (error' = "ValueError" /\ tsb' = tsb /\ log' = log)]_vars

C7_Witness ==
    /\ pc = "ms_commit"
    /\ error = "ValueError"
    /\ tsb.path[results[k + 1].node] = <<>>

\* C8 (all or nothing): when the sample round has ended, the paths of all
\* its samples are in the builder or those of none are.
C8_AllOrNothing ==
    (pc = "done" \/ (pc = "ms_commit" /\ error = "ValueError")) =>
        \/ \A n \in DOMAIN sample_id_map : Committed(tsb, sample_id_map[n])
        \/ \A n \in DOMAIN sample_id_map : ~Committed(tsb, sample_id_map[n])

\* C9 (worker failure): when a matching call of a round has raised, the
\* run has ended with the builder as it was when the round started, and a
\* round only commits if each of its items has a result.
C9_WorkerFailure ==
    /\ (Matching /\ error # "none") =>
          /\ error \in {"AssertionError", "MatchError"}
          /\ tsb = round_base
          /\ \A r \in RoundResults : ~Committed(tsb, r.node)
    /\ Committing => Len(results) = RoundSize /\ error # "MatchError"

C9_Witness ==
    /\ Matching
    /\ error = "MatchError"
    /\ Len(buffer) >= 1
    /\ log # <<>>

\* C10 (path tiling): the path committed for an ancestor tiles its
\* [start, end), that of a sample [0, NumSites): the first left is the
\* start, each right is the next left, the last right is the end, and
\* every edge is non-empty; the path the builder keeps for the node tiles
\* the same interval.
Tiles(p, lo, hi) ==
    /\ Len(p) >= 1
    /\ p[1].left = lo
    /\ p[Len(p)].right = hi
    /\ \A i \in 1 .. Len(p) : p[i].left < p[i].right
    /\ \A i \in 1 .. (Len(p) - 1) : p[i].right = p[i + 1].left

C10_PathTiling ==
    \A i \in 1 .. Len(log) :
        LET u == log[i].node
            lo == IF u < num_ancestors THEN ancestor_data[u].start ELSE 0
            hi == IF u < num_ancestors THEN ancestor_data[u].end ELSE NumSites
        IN Tiles(log[i].path, lo, hi) /\ Tiles(tsb.path[u], lo, hi)

C10_Witness ==
    /\ pc = "done"
    /\ \E i \in 1 .. Len(log) :
          Len(log[i].path) >= 2 /\ log[i].node >= num_ancestors

\* the haplotype matched for node u in the current round, and its interval
QueryOf(u) ==
    IF InAncestors THEN ancestor_data[u]
    ELSE [start |-> 0, end |-> NumSites,
          haplotype |-> samples[CHOOSE n \in DOMAIN sample_id_map :
                                    sample_id_map[n] = u].haplotype]

\* the parent that path p copies from at site s
CopiedAt(p, s) ==
    p[CHOOSE i \in 1 .. Len(p) : p[i].left <= s /\ s < p[i].right].parent

\* C11 (mutations of a match): the mutations of every result of a round
\* are exactly the sites of [start, end) where the query is not missing
\* and differs from the allele, in the index the round matches against, of
\* the node copied there, each with the query's allele as derived state.
C11_MatchMutations ==
    (Matching \/ Committing) =>
        \A r \in RoundResults :
            LET q == QueryOf(r.node)
            IN r.mutations =
                {[site |-> s, derived_state |-> q.haplotype[s]] :
                    s \in {x \in q.start .. (q.end - 1) :
                              /\ q.haplotype[x] # MISSING_DATA
                              /\ q.haplotype[x] #
                                    AlleleAt(round_base.frozen,
                                             CopiedAt(r.path, x), x)}}

C11_Witness ==
    /\ pc = "ms_commit"
    /\ \E n \in 1 .. Len(results) :
          samples[n].haplotype[NumSites - 1] = MISSING_DATA
    /\ \E i \in 1 .. Len(log) : log[i].mutations # {}

\* node p with path-compression nodes replaced by what they copy at site s
RECURSIVE Expand(_, _, _)
Expand(b, p, s) ==
    IF b.flags[p] = NODE_IS_PC_ANCESTOR /\ HasEdgeAt(b, p, s)
    THEN Expand(b, ParentAt(b, p, s), s)
    ELSE p

\* C12 (path compression preserves the copying relationships): for every
\* committed path and every site it covers, the node the child copies in
\* the builder, path-compression nodes expanded, is the node the path as
\* found copies; without compression the builder holds the path as found.
C12_CompressionPreserves ==
    \A i \in 1 .. Len(log) :
        LET r == log[i]
        IN /\ \A s \in r.path[1].left .. (r.path[Len(r.path)].right - 1) :
                 /\ HasEdgeAt(tsb, r.node, s)
                 /\ Expand(tsb, ParentAt(tsb, r.node, s), s) =
                        Expand(tsb, CopiedAt(r.path, s), s)
           /\ ~path_compression => tsb.path[r.node] = r.path

C12_Witness ==
    /\ pc = "done"
    /\ path_compression
    /\ \E u \in DOMAIN tsb.path :
          /\ tsb.flags[u] = NODE_IS_PC_ANCESTOR
          /\ Len(tsb.path[u]) >= 2
    /\ \E i \in 1 .. Len(log) : tsb.path[log[i].node] # log[i].path

\* builder b comes back from its ancestors tree sequence
RoundTrip(b) ==
    LET tables == get_ancestors_tables(b)
        r == restore_tree_sequence_builder(tables)
    IN /\ restore_error(tables) = "none"
       /\ r.time = b.time
       /\ r.flags = b.flags
       /\ r.path = b.path
       /\ r.mutations = b.mutations

\* C13 (restore of a dump): every site index goes to a position and back;
\* the builder of match_ancestors, dumped and restored, has the same node
\* times and flags, the same paths in site indexes and the same mutations;
\* and the builder the sample matcher starts from dumps to the ancestors
\* tree sequence it was restored from.
C13_RestoreDump ==
    /\ \A i \in 0 .. NumSites : searchsorted(position_map, position_map[i]) = i
    /\ (num_ancestors > 0 /\ (InAncestors \/ pc = "ms_init")) => RoundTrip(tsb)
    /\ pc = "ms_add" =>
          /\ error = "none"
          /\ get_ancestors_tables(tsb) = ancestors_ts

C13_Witness ==
    /\ pc = "ms_add"
    /\ path_compression
    /\ \E u \in DOMAIN tsb.flags : tsb.flags[u] = NODE_IS_PC_ANCESTOR
    /\ tsb.mutations # {}
    /\ \E u \in DOMAIN tsb.path : tsb.path[u] # <<>>

\* the ancestor data _run_synchronous leaves for descriptors ds[1 .. n]
RECURSIVE SynchronousData(_, _)
SynchronousData(ds, n) ==
    IF n = 0
    THEN IF ds = <<>> THEN <<>> ELSE add_root_ancestors(<<>>, ds)
    ELSE LET b == BuiltItem(n - 1, ds[n], ds)
         IN add_ancestor(SynchronousData(ds, n - 1), b.start, b.end, b.time,
                         b.focal_sites, b.haplotype)

\* C14 (ordered drain): at every moment the ancestors added so far are the
\* first ones _run_synchronous adds for the same descriptors, in the same
\* order, and when the run has ended they are all of them.
C14_OrderedDrain ==
    gpc \notin {"idle", "run"} =>
        LET want == SynchronousData(descriptors, Len(descriptors))
        IN /\ Len(generated) <= Len(want)
           /\ \A i \in 1 .. Len(generated) : generated[i] = want[i]
           /\ gpc = "done" => generated = want

C14_Witness ==
    /\ num_threads >= 2
    /\ Len(generated) >= 2
    /\ \E b \in add_queue : b.index > next_add_index

\* C15 (descriptor order): self.descriptors holds the descriptors the
\* builder returned, each once, by time descending and, at equal times, by
\* focal-site tuple descending (the tuples of two descriptors differ at
\* their first site); so it is the same for every order of the same set.
C15_DescriptorOrder ==
    gpc \notin {"idle", "run"} =>
        /\ Len(descriptors) = Len(descriptors_in)
        /\ {descriptors[i] : i \in 1 .. Len(descriptors)} =
              {descriptors_in[i] : i \in 1 .. Len(descriptors_in)}
        /\ \A a, b \in 1 .. Len(descriptors) :
              a < b =>
                  \/ descriptors[a].time > descriptors[b].time
                  \/ /\ descriptors[a].time = descriptors[b].time
                     /\ descriptors[a].focal_sites[1] >
                            descriptors[b].focal_sites[1]

C15_Witness ==
    /\ gpc = "done"
    /\ descriptors # descriptors_in
    /\ \E i \in 1 .. (Len(descriptors) - 1) :
          descriptors[i].time = descriptors[i + 1].time

\* a synthetic ancestor: no focal sites, all zeros, spanning every site
IsSyntheticRoot(a) ==
    /\ a.focal_sites = <<>>
    /\ a.start = 0
    /\ a.end = NumSites
    /\ a.haplotype = [s \in Sites |-> 0]

BuildStarted ==
    \/ \E w \in Workers : bworker[w].state # "unstarted"
    \/ \E i \in 1 .. Len(generated) : generated[i].focal_sites # <<>>

C17_AncestorIdIsNodeId ==
    InAncestors =>
        /\ \A i \in DOMAIN ancestor_data : tsb.time[i] = epoch[i]
        /\ pc = "ma_match" => ancestors = epoch_slices[j].start + taken
        /\ error # "AssertionError"

\* C18 (consumed exactly once): when match_ancestors has returned, every
\* ancestor but the first has been committed exactly once and has a path,
\* and the first has neither a commit nor a path.
C18_ConsumedOnce ==
    (error = "none" /\ ~InAncestors /\ num_ancestors > 0) =>
        /\ \A i \in 1 .. (num_ancestors - 1) :
              /\ Cardinality({n \in 1 .. Len(log) : log[n].node = i}) = 1
              /\ Committed(tsb, i)
        /\ \A n \in 1 .. Len(log) : log[n].node # 0
        /\ ~Committed(tsb, 0)

InSampleRound == pc \in {"ms_match", "ms_commit"} \/ (pc = "done" /\ samples # <<>>)

\* C19 (single sample round): from the start of the matching on, every
\* requested sample has its node, with the sample's time; the index the
\* samples are matched against is the one restored from the ancestors
\* tree sequence; no sample is committed while one is still to be
\* matched; and every parent of a sample's path is a node of the
\* ancestors tree sequence, never a sample node or a path-compression
\* node of this call.
C19_SingleSampleRound ==
    InSampleRound =>
        /\ \A n \in 1 .. Len(samples) :
              /\ sample_id_map[n] \in DOMAIN tsb.time
              /\ tsb.time[sample_id_map[n]] = samples[n].time
        /\ tsb.frozen = restore_tree_sequence_builder(ancestors_ts).frozen
        /\ pc = "ms_match" =>
              \A n \in 1 .. Len(samples) : ~Committed(tsb, sample_id_map[n])
        /\ pc = "ms_commit" => Len(results) = Len(samples)
        /\ \A r \in RoundResults : \A p \in PathParents(r.path) :
              p \in DOMAIN ancestors_ts.nodes

C19_Witness ==
    /\ pc = "done"
    /\ Len(samples) >= 2
    /\ num_nodes(tsb) > sample_id_map[Len(samples)] + 1
    /\ \E n \in 1 .. Len(samples) : samples[n].time > 0

CallsMade == {"match_ancestors"} \cup (IF InAncestors THEN {} ELSE {"_match_samples"})
MatchersOf(c) == {m \in matchers : m.call = c}
UsesOf(c) == {u \in uses : u.call = c}

\* C20 (matcher ownership): find_path only ever runs on a matcher in the
\* thread that created it, in the call that created it; no thread
\* creates a second matcher in one call of match_ancestors or
\* _match_samples; and with num_threads <= 0 a call that has matched a
\* haplotype has exactly one matcher, created by the scheduling thread
\* and used for every haplotype.
C20_MatcherOwnership ==
    /\ \A u \in uses : u.matcher.thread = u.thread /\ u.matcher.call = u.call
    /\ \A m \in matchers : m.n = 1
    /\ \A t \in DOMAIN local_data : local_data[t].thread = t
    /\ num_threads <= 0 =>
          \A c \in CallsMade :
              LET one == [call |-> c, thread |-> MainThread, n |-> 1]
              IN /\ MatchersOf(c) \subseteq {one}
                 /\ UsesOf(c) \subseteq
                       {[matcher |-> one, thread |-> MainThread, call |-> c]}
                 /\ (UsesOf(c) # {}) = (MatchersOf(c) # {})
                 /\ (c = call_id /\ (Matching \/ Committing) /\ RoundResults # {}) =>
                       UsesOf(c) # {}

\* two worker threads of one round have each created and used a matcher,
\* and a later round has started new threads
C20_Witness ==
    /\ num_threads >= 2
    /\ \E u, v \in uses :
          /\ u.call = v.call
          /\ u.thread[1] = v.thread[1]
          /\ u.thread[2] # v.thread[2]
    /\ \E u, v \in uses : u.thread[1] # v.thread[1]

\* without threads one matcher has served two rounds of match_ancestors
C20_WitnessSynchronous ==
    /\ num_threads <= 0
    /\ pc = "ma_match"
    /\ j >= 2
    /\ taken >= 1
    /\ Cardinality(matchers) = 1

BuilderEmpty ==
    builder = None \/ (num_nodes(ValueOf(builder)) = 0
                        /\ ValueOf(builder).path = <<>>
                        /\ ValueOf(builder).mutations = {})

\* C21 (validation before mutation): whenever a validation error has been
\* raised, the builder is still None or holds no node, edge or mutation.
C21_ValidationBeforeMutation == verror # "none" => BuilderEmpty

InitDone == vpc \in {"restore", "indexes", "match", "raised"}
Above(arr, v) == \E i \in DOMAIN arr : arr[i] > v

\* C22 (probabilities above 0.5): once Matcher.__init__ has run on
\* recombination and mismatch arrays of which one holds a value above
\* 0.5, it has raised or logged a warning.
C22_HighProbabilityRejected ==
    (/\ InitDone
     /\ args.recombination # None
     /\ args.mismatch # None
     /\ Above(ValueOf(args.recombination), ProbHalf)
           \/ Above(ValueOf(args.mismatch), ProbHalf)) =>
        verror # "none" \/ init_warnings(args) # {}

Derived(a) == ~Direct(a) /\ combination_error(a) = "none" /\ ~UseDefaults(a)

Given(o) == o # None

\* C24 (parameter combinations): once Matcher.__init__ has run with
\* exactly one of recombination and mismatch, with one of them next to
\* recombination_rate or mismatch_ratio, or with mismatch_ratio and no
\* recombination_rate, a ValueError has been raised and there is no
\* builder.
C24_ParameterCombinations ==
    (/\ InitDone
     /\ \/ Given(args.recombination) # Given(args.mismatch)
        \/ /\ Given(args.recombination) \/ Given(args.mismatch)
           /\ Given(args.recombination_rate) \/ Given(args.mismatch_ratio)
        \/ Given(args.mismatch_ratio) /\ ~Given(args.recombination_rate)) =>
        /\ vpc = "raised"
        /\ verror \in {"requires both recombination and mismatch",
                        "cannot simultaneously specify",
                        "cannot use mismatch without setting recombination"}
        /\ builder = None

C24_Witness ==
    /\ vpc = "raised"
    /\ verror = "cannot simultaneously specify"
    /\ Given(args.recombination) /\ Given(args.mismatch)
    /\ Given(args.mismatch_ratio)
    /\ builder = None

IndexesChecked == vpc = "match" \/ (vpc = "raised" /\ ~BuilderEmpty)
StrictlyIncreasing(ix) == \A i \in 1 .. (Len(ix) - 1) : ix[i] < ix[i + 1]
ValidIndexes(ix) ==
    /\ Len(ix) > 0
    /\ \A i \in 1 .. Len(ix) : ix[i] >= 0 /\ ix[i] < MaxSamples
    /\ StrictlyIncreasing(ix)

\* C27 (sample indexes): once check_sample_indexes has run, on None it
\* has returned 0 .. num_samples - 1; on a list that is empty, has an
\* index out of range or is not strictly increasing it has raised; on
\* every other list it has returned the list unchanged.
C27_SampleIndexes ==
    IndexesChecked =>
        IF args.indexes = None
        THEN /\ vpc = "match"
             /\ sample_indexes = [i \in 1 .. MaxSamples |-> i - 1]
        ELSE IF ValidIndexes(ValueOf(args.indexes))
        THEN vpc = "match" /\ sample_indexes = ValueOf(args.indexes)
        ELSE vpc = "raised" /\ sample_indexes = <<>>

C27_Witness ==
    /\ vpc = "raised"
    /\ ~BuilderEmpty
    /\ args.indexes = Some(<<0, 0>>)
    /\ verror = "sample indexes must be in increasing order"

HasTime(kind) == \E i \in 1 .. Len(sample_sites) : sample_sites[i].time.kind = kind

\* C25 (mixed site times): once generate_ancestors has made its check, it
\* has raised, with no ancestor builder and no site added, exactly if
\* the sample data has a site with a finite time and a site with the
\* unknown time; in a run that was not stopped no site with time NaN
\* is added.
C25_MixedSiteTimes ==
    spc \in {"raised", "add_sites", "run"} =>
        /\ (spc = "raised") = (HasTime("finite") /\ HasTime("unknown"))
        /\ spc = "raised" =>
              /\ serror # "none"
              /\ ancestor_builder = None
              /\ gen_num_sites = 0
        /\ spc # "raised" =>
              /\ serror = "none"
              /\ \A n \in 1 .. Len(inference_site_id) :
                    sample_sites[inference_site_id[n] + 1].time.kind # "nan"

\* a site with time NaN next to a site with a finite time: no error
C25_Witness ==
    /\ spc = "run"
    /\ HasTime("nan") /\ HasTime("finite")
    /\ Len(inference_site_ids) >= 1

Carriers(site, a) ==
    Cardinality({i \in DOMAIN site.genotypes : site.genotypes[i] = a})

\* the sites the claim says are used for inference
Usable(site) ==
    /\ site.position \notin exclude_positions
    /\ site.num_alleles = 2
    /\ site.ancestral_known
    /\ Carriers(site, 1) >= 2
    /\ Carriers(site, 0) >= 1
    /\ site.time.kind # "nan"

RECURSIVE UsableIds(_)
UsableIds(n) ==
    IF n = 0 THEN <<>>
    ELSE IF Usable(sample_sites[n]) THEN Append(UsableIds(n - 1), n - 1)
    ELSE UsableIds(n - 1)

\* C26 (inference-site selection): while add_sites runs, the sites added
\* so far are the usable ones among the variants read, in site order,
\* and num_sites is their count; once it has ended, inference_site_ids
\* lists the ids of the usable sites in site order.
C26_SiteSelection ==
    spc \in {"add_sites", "run"} =>
        /\ inference_site_id = UsableIds(site_j)
        /\ gen_num_sites = Len(inference_site_id)
        /\ Len(ValueOf(ancestor_builder)) = Len(inference_site_id)
        /\ \A n \in 1 .. Len(inference_site_id) :
              ValueOf(ancestor_builder)[n].genotypes =
                  sample_sites[inference_site_id[n] + 1].genotypes
        /\ spc = "run" =>
              /\ site_j = Len(sample_sites)
              /\ inference_site_ids = UsableIds(Len(sample_sites))

\* one site used and one site with a single carrier of the derived allele
C26_Witness ==
    /\ spc = "run"
    /\ Len(inference_site_ids) >= 1
    /\ \E i \in 1 .. Len(sample_sites) :
          /\ Carriers(sample_sites[i], 1) = 1
          /\ sample_sites[i].num_alleles = 2
          /\ sample_sites[i].position \notin exclude_positions

\* ---------------------------------------------------------------- C29
SampleFlagged(tables, u) == HasBit(tables.nodes[u].flags, NODE_IS_SAMPLE)

\* C29: in the tree sequence built by get_samples_tree_sequence the node of the
\* n-th sample of the call has the id (node count of the ancestors tree
\* sequence) + n - 1, carries the sample flag and the time the n-th sample was
\* given, and no other node carries the sample flag; every node of the builder
\* has the same id and time in the output; and whenever finalise is about to be
\* called the first sample id equals the node count of the ancestors tree
\* sequence, so the assertion holds.
C29_SampleNodeOrder ==
    LET n0 == Cardinality(DOMAIN ancestors_ts.nodes)
    IN /\ (pc = "done" /\ samples # <<>> /\ Running)
            => finalise_asserts(tsb, sample_id_map, ancestors_ts)
       /\ pc = "finalised" =>
            /\ \A n \in 1 .. Len(samples) :
                  /\ sample_id_map[n] = n0 + n - 1
                  /\ SampleFlagged(out_ts, n0 + n - 1)
                  /\ out_ts.nodes[n0 + n - 1].time = samples[n].time
                  /\ HasBit(out_ts.nodes[n0 + n - 1].flags,
                            NODE_IS_HISTORICAL_SAMPLE) <=> samples[n].time # 0
            /\ \A u \in DOMAIN out_ts.nodes :
                  SampleFlagged(out_ts, u) => u \in n0 .. (n0 + Len(samples) - 1)
            /\ \A u \in DOMAIN tsb.time :
                  /\ u \in DOMAIN out_ts.nodes
                  /\ out_ts.nodes[u].time = tsb.time[u]

\* two samples of different times were matched, path compression added a node
\* after them, and the tree sequence was built
C29_Witness ==
    /\ pc = "finalised"
    /\ Len(samples) = 2
    /\ samples[1].time # samples[2].time
    /\ num_nodes(tsb) > sample_id_map[2] + 1
    /\ Cardinality(DOMAIN ancestors_ts.nodes) > 0

\* ---------------------------------------------------------------- C30
\* the nodes augment_ancestors added to the ancestors tree sequence
AddedNodes ==
    Cardinality(DOMAIN ancestors_ts.nodes) .. (Cardinality(DOMAIN out_ts.nodes) - 1)

SampleAncestors ==
    {u \in AddedNodes : out_ts.nodes[u].flags = NODE_IS_SAMPLE_ANCESTOR}

\* C30: the tree sequence augment_ancestors returns passes the checks the
\* sample matcher makes of an ancestors tree sequence: every node time is > 0;
\* the time of every node is the time of the same node of the builder plus 1,
\* so two nodes compare as they did; the n-th added node flagged
\* NODE_IS_SAMPLE_ANCESTOR carries the n-th requested sample index as its
\* sample_data_id, there is one per requested sample, and every other added
\* node is a path-compression node.
C30_AugmentedReusable ==
    pc = "augmented" =>
        /\ restore_error(out_ts) = "none"
        /\ DOMAIN out_ts.nodes = DOMAIN tsb.time
        /\ \A u \in DOMAIN out_ts.nodes :
              /\ out_ts.nodes[u].time > 0
              /\ out_ts.nodes[u].time = tsb.time[u] + TimeOne
        /\ \A u, v \in DOMAIN out_ts.nodes :
              (out_ts.nodes[u].time < out_ts.nodes[v].time)
                 <=> (tsb.time[u] < tsb.time[v])
        /\ Cardinality(SampleAncestors) = Len(call_sample_indexes)
        /\ \A u \in SampleAncestors :
              out_ts.nodes[u].metadata =
                 call_sample_indexes[
                    Cardinality({v \in SampleAncestors : v < u}) + 1]
        /\ \A u \in AddedNodes \ SampleAncestors :
              is_pc_ancestor(out_ts.nodes[u].flags)

\* two samples were added as ancestors, with a path-compression node after them
C30_Witness ==
    /\ pc = "augmented"
    /\ Cardinality(SampleAncestors) = 2
    /\ AddedNodes \ SampleAncestors # {}
    /\ Cardinality(DOMAIN ancestors_ts.nodes) > 0

\* ---------------------------------------------------------------- C28
EdgesOf(tables, u) == {e \in tables.edges : e.child = u}

WholeEdge(parent, child) ==
    [left |-> 0, right |-> sequence_length, parent |-> parent, child |-> child]

\* C28: with zero inference sites no match is made and no path or mutation is
\* committed to the builder, and the samples tree sequence has a node, older
\* than every sample, that is the parent of the one edge of every sample, that
\* edge spanning [0, sequence_length); the one edge of that node spans
\* [0, sequence_length) and goes to a still older node, which has no edge.
C28_NoInferenceSites ==
    (num_sites = 0 /\ samples # <<>>) =>
        /\ log = <<>>
        /\ matchers = {}
        /\ uses = {}
        /\ \A u \in DOMAIN tsb.path : tsb.path[u] = <<>>
        /\ tsb.mutations = {}
        /\ pc = "finalised" =>
              \E root, ultimate \in DOMAIN out_ts.nodes :
                 /\ \A n \in 1 .. Len(samples) :
                       /\ EdgesOf(out_ts, sample_id_map[n])
                             = {WholeEdge(root, sample_id_map[n])}
                       /\ out_ts.nodes[root].time
                             > out_ts.nodes[sample_id_map[n]].time
                 /\ EdgesOf(out_ts, root) = {WholeEdge(ultimate, root)}
                 /\ out_ts.nodes[ultimate].time > out_ts.nodes[root].time
                 /\ EdgesOf(out_ts, ultimate) = {}
                 /\ Cardinality(out_ts.edges) = Len(samples) + 1

\* the samples tree sequence of two samples, one of them historical, was built
\* without inference sites
C28_Witness ==
    /\ num_sites = 0
    /\ pc = "finalised"
    /\ Len(samples) = 2
    /\ samples[1].time # 0
    /\ samples[2].time = 0
    /\ Cardinality(DOMAIN out_ts.nodes) = 4

\* ---------------------------------------------------------------- C31
BothGiven == post.simplify # None /\ post.post_process # None

C33_RootTimes ==
    (gpc = "done" /\ Len(generated) >= 2) =>
        /\ generated[1].time > generated[2].time
        /\ \A c \in 3 .. Len(generated) :
              generated[2].time > generated[c].time

\* ------------------------------------------------ the progress counters
\* the ancestors of epochs start_epoch and later: the ones match_ancestors
\* maps
mapped_ancestors ==
    IF num_epochs = 0 THEN 0
    ELSE num_ancestors - (epoch_slices[0].end - epoch_slices[0].start)

AncestorCounterClosed ==
    /\ match_progress.name = "ma_match"
    /\ match_progress.closed

\* the counter after close() has one update for every ancestor that was
\* matched
ClosedCountsMapped ==
    AncestorCounterClosed => match_progress.n = mapped_ancestors

\* C34: the ma_match counter, created with total num_ancestors, has reached
\* its total when it is closed
C34_AncestorProgress ==
    AncestorCounterClosed => match_progress.n = match_progress.total

SampleCounterClosed ==
    /\ match_progress.name = "ms_match"
    /\ match_progress.closed

\* C35: the ms_match counter, created with total num_samples, is updated
\* once for every matched sample, so it equals num_samples when it is closed
C35_SampleProgress ==
    SampleCounterClosed => match_progress.n = Len(samples)

\* what the counter shows instead: two updates for every sample
ClosedCountsTwice ==
    SampleCounterClosed => match_progress.n = 2 * Len(samples)

\* ------------------------------------------------ the epoch accounting
\* the assertion at the end of __complete_epoch has failed
AccountingFailed ==
    /\ error = "AssertionError"
    /\ pc = "ma_commit"
    /\ k > 0
    /\ k = commit_count

\* an epoch has just been committed
EpochCommitted ==
    /\ Running
    /\ pc = "ma_loop"
    /\ j > start_epoch

\* C36: the assertion at the end of __complete_epoch never fails, and after
\* an epoch is committed num_match_nodes has grown by the number of
\* ancestors of the epoch plus the number of nodes the commit created
C36_EpochAccounting ==
    /\ ~AccountingFailed
    /\ EpochCommitted =>
          num_match_nodes(tsb) =
              num_match_nodes(round_base)
              + (num_nodes(tsb) - num_nodes(round_base))
              + (epoch_slices[j - 1].end - epoch_slices[j - 1].start)

\* an epoch committed with path compression that created a node
C36_Witness ==
    /\ EpochCommitted
    /\ path_compression
    /\ num_nodes(tsb) > num_nodes(round_base)

\* an epoch committed without path compression
C36_WitnessPlain ==
    /\ EpochCommitted
    /\ ~path_compression
    /\ epoch_slices[j - 1].end - epoch_slices[j - 1].start > 1

\* ------------------------------------------------ the threaded build
\* _run_threaded has returned
ThreadedReturned ==
    /\ gpc = "done"
    /\ num_threads > 0
    /\ descriptors # <<>>

\* what _run_threaded leaves behind
BuildFinished ==
    /\ add_queue = {}
    /\ next_add_index = Len(descriptors)
    /\ build_queue = <<>>
    /\ stops = num_threads
    /\ \A w \in Workers : w <= num_threads => bworker[w].state = "exited"

\* C37: _run_threaded, once its threads are to be started, returns; on
\* return every worker has taken one stop sentinel and exited, the build
\* queue and the add queue are empty and next_add_index is the number of
\* descriptors
C37_BuildTerminates ==
    /\ [](ThreadedReturned => BuildFinished)
    /\ (gpc = "start_threads") ~> ThreadedReturned

\* the main thread waits at put for room in the full build queue
C37_Witness ==
    /\ gpc \in {"put", "stop"}
    /\ num_threads > 0
    /\ Len(build_queue) = queue_depth

\* ------------------------------------------------ add_lock
\* a build worker that has been started and has not returned
Alive(w) == bworker[w].state \in {"waiting", "built", "locked"}

\* the worker is inside the with block
InLockedRegion(w) == bworker[w].state = "locked"

\* the haplotype the ancestor builder makes for the focal sites
BuiltHaplotype(x) == x.haplotype = make_ancestor(x.focal_sites).haplotype

\* the workers inside the with block hold the lock, so there is one at most,
\* and what the buffers and the add queue hold is what was built
LockHeld ==
    /\ \A w \in Workers : InLockedRegion(w) => add_lock = w
    /\ \A v, w \in Workers : InLockedRegion(v) /\ InLockedRegion(w) => v = w
    /\ add_lock # 0 => InLockedRegion(add_lock)
    /\ \A w \in Workers :
          bworker[w].state \in {"built", "locked"} =>
              BuiltHaplotype(copied_item(bworker[w], descriptors))
    /\ \A x \in add_queue : BuiltHaplotype(x)
    /\ \A i \in 1 .. Len(generated) :
          generated[i].focal_sites # <<>> => BuiltHaplotype(generated[i])

\* a step that touches the add queue, next_add_index or the ancestor data
TouchesAddQueue ==
    \/ add_queue' # add_queue
    \/ next_add_index' # next_add_index
    \/ generated' # generated

\* C38: while a build worker is alive the add queue, next_add_index and the
\* ancestor data are touched only by the worker that holds add_lock, which
\* lets go of it in the same step; two workers are never inside the with
\* block together; the haplotype queued is the one built
C38_AddLock ==
    /\ []LockHeld
    /\ [][TouchesAddQueue =>
            \/ \A w \in Workers : ~Alive(w)
            \/ /\ add_lock # 0
               /\ InLockedRegion(add_lock)
               /\ bworker'[add_lock].state = "waiting"
               /\ add_lock' = 0]_vars

\* one worker is inside the with block while another waits for the lock with
\* an ancestor built
C38_Witness ==
    \E v, w \in Workers :
        /\ InLockedRegion(v)
        /\ bworker[w].state = "built"
        /\ bworker[w].work.index < bworker[v].work.index

\* ------------------------------------------------ the node metadata
\* match_ancestors has returned an ancestors tree sequence
AncestorsStored ==
    /\ Running
    /\ pc # "ma_loop" /\ pc # "ma_match" /\ pc # "ma_commit"
    /\ num_ancestors > 0

\* C40: in the ancestors tree sequence every node that is not a
\* path-compression node has the metadata ancestor_data_id equal to its node
\* id, which is below num_ancestors, and every path-compression node has
\* empty metadata and an id of num_ancestors or more
C40_AncestorMetadata ==
    AncestorsStored =>
        \A u \in DOMAIN ancestors_ts.nodes :
            IF is_pc_ancestor(ancestors_ts.nodes[u].flags)
            THEN /\ ancestors_ts.metadata[u] = NoMetadata
                 /\ u >= num_ancestors
            ELSE /\ ~ancestors_ts.metadata[u].empty
                 /\ ancestors_ts.metadata[u].ancestor_data_id = u
                 /\ u < num_ancestors

\* an ancestors tree sequence with a path-compression node
C40_Witness ==
    /\ AncestorsStored
    /\ \E u \in DOMAIN ancestors_ts.nodes :
          is_pc_ancestor(ancestors_ts.nodes[u].flags)

\* ------------------------------------------------ the flags of the nodes
\* the flag bits other than the sample flag
OtherBits ==
    {NODE_IS_PC_ANCESTOR, NODE_IS_SAMPLE_ANCESTOR, NODE_IS_HISTORICAL_SAMPLE}

\* the nodes of the ancestors tree sequence, as ids of the output
Inherited == 0 .. (Cardinality(DOMAIN ancestors_ts.nodes) - 1)

\* the nodes added for the samples of the call
MatchedSampleNodes == {sample_id_map[n] : n \in 1 .. Len(samples)}

=============================================================================
